---- MODULE Spec2Model ----
(***************************************************************************)
(* Verification model of the YouTubeGraph analysis core:                   *)
(*   - segment ids            (SegmentRepository._segment_uuid)            *)
(*   - the grouping engine    (GroupingService, BoundaryDetector,          *)
(*                             GroupMerger)                                *)
(*   - the segment assembler  (PunctuationWorker)                          *)
(*   - relationship detectors (IntraGroupDetector, InterGroupDetector,     *)
(*                             RelationshipExtractor)                      *)
(*   - the concept/relationship stages run twice against the stores        *)
(*                                                                         *)
(* Fixed-point conventions: similarities, thresholds, importances and      *)
(* confidences are integers in thousandths (1000 = 1.0).  Grouping times   *)
(* are whole ticks of 15 seconds.                                          *)
(***************************************************************************)
EXTENDS Integers, Sequences, FiniteSets, TLC

VARIABLES
    \* ---- grouping engine ----
    store,          \* vector store: set of Segment objects of the video
    segments,       \* list of SegmentNode fetched by group_video
    boundaries,     \* result of BoundaryDetector.detect_boundaries
    formed,         \* groups returned by _form_groups (input of merge_groups)
    groups,         \* groups returned by group_video
    gpc,            \* position inside group_video
    config,         \* GroupingConfig of the services
    \* ---- segment upload ----
    batch,          \* TranscriptSegments still to be added by upload_segments
    collection,     \* objects of the Segment collection, by uuid
    assigned,       \* the segments added so far with the uuid each one got
    \* ---- segment assembler ----
    word_timeline,      \* _build_word_timeline result
    punctuated_words,   \* punctuated_text.split()
    timed_words,        \* _merge_words_with_timestamps result
    sentences,          \* _words_to_sentences result
    transcript,         \* _sentences_to_segments result
    apc,                \* position inside PunctuationWorker.__call__
    \* ---- relationship extraction ----
    detector_config,        \* min_confidence and openai_client of the detectors
    all_extracted_concepts, \* argument of extract_from_video
    all_relationships,      \* relationships collected so far
    cursor,                 \* next group of the intra-group phase
    rpc,                    \* position inside extract_from_video
    \* ---- the pipeline, run twice on one video ----
    responses,              \* what the external services answer (the same in both runs)
    weaviate_segments,      \* objects of the Segment collection
    neo4j_concepts,         \* ids of the Concept nodes of the graph store
    neo4j_relationships,    \* ids of the GRAPH_RELATION edges of the graph store
    pipeline_groups,        \* groups returned by group_video in this run
    processed_concepts,     \* result of ConceptService.process_groups in this run
    first_run,              \* the stores and groups as the first run left them
    run,                    \* 1 or 2
    ppc,                    \* position inside the run
    \* ---- process_video: stage flags and failures ----
    enable_grouping,        \* feature flags of YouTubeGraphPipeline
    enable_concepts,
    enable_relationships,
    result_dict,            \* the dict process_video builds and returns
    concept_payload,        \* number of ExtractedConcepts handed to step 7
    persisted,              \* what the stores hold for the video
    stages_run,             \* stages whose worker was invoked in this call
    raised_in,              \* stage in which an exception was raised, or "none"
    fpc,                    \* position inside process_video
    \* ---- ConceptService.process_groups ----
    llm_answers,            \* what the LLM answers in Pass 1 (per group) and Pass 2
    service_groups,         \* argument of process_groups
    pass1_candidates,       \* candidate_concepts after the Pass 1 loop
    consolidate_calls,      \* number of calls of consolidator.consolidate
    graph_concepts,         \* Concept nodes of the graph store
    returned_concepts,      \* the list process_groups returns
    delay_seconds,          \* delay of the service, in tenths of a second
    llm_log,                \* LLM calls and sleeps of process_groups, in order
    cpc,                    \* position inside process_groups
    \* ---- the store upserts, applied twice ----
    store_op,               \* which upsert is applied: segments, concepts, relationships
    upsert_input,           \* the list handed to it (the same both times)
    segment_objects,        \* objects of the Segment collection
    concept_nodes,          \* Concept nodes of the graph store
    relation_edges,         \* GRAPH_RELATION edges of the graph store, in creation order
    after_first,            \* the three stores as the first application left them
    applications,           \* number of applications so far
    upsert_stats,           \* what the last upsert_relationships returned
    \* ---- the callers of the relationship extraction ----
    orchestration,          \* which caller runs: pipeline, service or script
    overwrite,              \* overwrite / overwrite_relationships
    detector_raises,        \* whether extract_from_video raises in this run
    graph_edges,            \* ids of the GRAPH_RELATION edges of the video
    detected,               \* ids of the relationships the detectors returned
    events,                 \* calls made so far, in order
    opc                     \* position inside the caller

gvars == <<store, segments, boundaries, formed, groups, gpc, config>>
ivars == <<batch, collection, assigned>>
avars == <<word_timeline, punctuated_words, timed_words, sentences, transcript, apc>>
rvars == <<detector_config, all_extracted_concepts, all_relationships, cursor, rpc>>
pvars == <<responses, weaviate_segments, neo4j_concepts, neo4j_relationships,
           pipeline_groups, processed_concepts, first_run, run, ppc>>
fvars == <<enable_grouping, enable_concepts, enable_relationships, result_dict,
           concept_payload, persisted, stages_run, raised_in, fpc>>
cvars == <<llm_answers, service_groups, pass1_candidates, consolidate_calls,
           graph_concepts, returned_concepts, delay_seconds, llm_log, cpc>>
svars == <<store_op, upsert_input, segment_objects, concept_nodes, relation_edges,
           after_first, applications, upsert_stats>>
ovars == <<orchestration, overwrite, detector_raises, graph_edges, detected, events, opc>>
vars == <<gvars, ivars, avars, rvars, pvars, fvars, cvars, svars, ovars>>

(***************************************************************************)
(* Grouping configuration (src/config.py GroupingConfig), scaled: words    *)
(* are counted in small units and time in ticks, the ratios are kept.      *)
(***************************************************************************)
MaxSegs == 3            \* most segments a video has in the model
ScaledMaxGroupWords == 4

GroupingConfig ==
          [ k_neighbors              |-> 8,
            neighbor_threshold       |-> 800,
            adjacent_threshold       |-> 700,
            temporal_tau             |-> 10,      \* 150 s = 10 ticks
            max_group_words          |-> ScaledMaxGroupWords,
            min_group_segments       |-> 2,
            merge_centroid_threshold |-> 850 ]

\* the parts of the state a component does not touch
GroupingIdle ==
    /\ store = {} /\ segments = <<>> /\ boundaries = <<>>
    /\ formed = <<>> /\ groups = <<>> /\ gpc = "idle"
    /\ config = GroupingConfig
UploadIdle == batch = <<>> /\ collection = {} /\ assigned = <<>>
AssemblerIdle ==
    /\ word_timeline = <<>> /\ punctuated_words = <<>> /\ timed_words = <<>>
    /\ sentences = <<>> /\ transcript = <<>> /\ apc = "idle"
ExtractionIdle ==
    /\ detector_config = [min_confidence |-> 600, openai_client |-> FALSE]
    /\ all_extracted_concepts = <<>> /\ all_relationships = <<>>
    /\ cursor = 1 /\ rpc = "idle"
PipelineIdle ==
    /\ responses = <<>> /\ weaviate_segments = {} /\ neo4j_concepts = {}
    /\ neo4j_relationships = {} /\ pipeline_groups = <<>> /\ processed_concepts = <<>>
    /\ first_run = <<>> /\ run = 0 /\ ppc = "idle"

FlowIdle ==
    /\ enable_grouping = FALSE
    /\ enable_concepts = FALSE
    /\ enable_relationships = FALSE
    /\ result_dict = <<>>
    /\ concept_payload = 0
    /\ persisted = {}
    /\ stages_run = {}
    /\ raised_in = "none"
    /\ fpc = "idle"

ConceptsIdle ==
    /\ llm_answers = <<>>
    /\ service_groups = <<>>
    /\ pass1_candidates = <<>>
    /\ consolidate_calls = 0
    /\ graph_concepts = {}
    /\ returned_concepts = <<>>
    /\ delay_seconds = 0
    /\ llm_log = <<>>
    /\ cpc = "idle"

StoresIdle ==
    /\ store_op = "none"
    /\ upsert_input = <<>>
    /\ segment_objects = {}
    /\ concept_nodes = {}
    /\ relation_edges = <<>>
    /\ after_first = <<>>
    /\ applications = 0
    /\ upsert_stats = <<>>

OverwriteIdle ==
    /\ orchestration = "none"
    /\ overwrite = FALSE
    /\ detector_raises = FALSE
    /\ graph_edges = {}
    /\ detected = {}
    /\ events = <<>>
    /\ opc = "idle"

\* a missing embedding (None or an empty list: both are falsy in the code)
NoEmbedding == <<>>
\* SegmentNode.group_id before a group is assigned (None)
NoGroup == -1

(***************************************************************************)
(* Generic helpers                                                         *)
(***************************************************************************)
Min(a, b) == IF a <= b THEN a ELSE b
Max(a, b) == IF a >= b THEN a ELSE b
Abs(a) == IF a < 0 THEN -a ELSE a

RECURSIVE SumSeq(_)
SumSeq(s) == IF s = <<>> THEN 0 ELSE Head(s) + SumSeq(Tail(s))

Last(s) == s[Len(s)]

(***************************************************************************)
(* Segment ids: key = f"{video_id}:{start_s:.6f}", id = uuid5(URL, key).   *)
(* A start time is a pair (whole seconds, fraction in units of 1e-7 s), so *)
(* that values closer than the rendering's resolution exist.  uuid5 is     *)
(* taken to be injective on keys, so the id is the key string.             *)
(***************************************************************************)
\* left-pad the decimal rendering of n with zeros to six digits
Pad6(n) ==
    LET s == ToString(n)
    IN  IF n < 10 THEN "00000" \o s
        ELSE IF n < 100 THEN "0000" \o s
        ELSE IF n < 1000 THEN "000" \o s
        ELSE IF n < 10000 THEN "00" \o s
        ELSE IF n < 100000 THEN "0" \o s
        ELSE s

\* "%.6f" of whole + frac/1e7 (round to nearest microsecond, ties to even)
Format6f(whole, frac) ==
    LET q == frac \div 10
        r == frac % 10
        up == (r > 5) \/ (r = 5 /\ q % 2 = 1)
        micro == IF up THEN q + 1 ELSE q
        w == IF micro >= 1000000 THEN whole + 1 ELSE whole
        m == IF micro >= 1000000 THEN micro - 1000000 ELSE micro
    IN  ToString(w) \o "." \o Pad6(m)

\* variant of _segment_uuid whose key leaves out the video id
_segment_uuid_StartOnly(video_id, whole, frac) == Format6f(whole, frac)

_segment_uuid(video_id, whole, frac) ==
    video_id \o ":" \o Format6f(whole, frac)

VideoId == "v1"

\* choices for the segments a video can have
WordChoices == {1, 3}
\* <<ticks since the previous start, duration in ticks>>: close and touching,
\* close and outlasting the next start (overlapping snippets), far apart
TimingChoices == {<<1, 1>>, <<1, 2>>, <<4, 1>>}
EmbChoices  == {NoEmbedding, <<1, 0>>, <<3, 4>>}

(***************************************************************************)
(* Vector arithmetic on embeddings (2-dimensional integer vectors)         *)
(***************************************************************************)
Dot(u, v) == u[1] * v[1] + u[2] * v[2]
Norm2(u) == Dot(u, u)

RECURSIVE ISqrtFrom(_, _)
ISqrtFrom(x, r) == IF (r + 1) * (r + 1) > x THEN r ELSE ISqrtFrom(x, r + 1)
ISqrt(x) == ISqrtFrom(x, 0)

RECURSIVE GCD(_, _)
GCD(a, b) == IF b = 0 THEN a ELSE GCD(b, a % b)

\* cosine_similarity(vec1, vec2) >= thr/1000, decided exactly on the squares
\* with thr/1000 in lowest terms (domain/group.py: zero norm gives 0.0).
\* Embeddings are non-negative, thr >= 0.
CosineAtLeast(u, v, thr) ==
    LET g == GCD(1000, thr)
        num == thr \div g
        den == 1000 \div g
    IN  IF Norm2(u) = 0 \/ Norm2(v) = 0 THEN 0 >= thr
        ELSE Dot(u, v) * Dot(u, v) * den * den >= num * num * Norm2(u) * Norm2(v)

\* similarity = 1 - distance as reported by the store, in thousandths
cosine_similarity(u, v) ==
    IF Norm2(u) = 0 \/ Norm2(v) = 0 THEN 0
    ELSE (Dot(u, v) * 1000) \div ISqrt(Norm2(u) * Norm2(v))

\* round(1000 * exp(-k/10)), k = 0..30
ExpTable == << 1000, 905, 819, 741, 670, 607, 549, 497, 449, 407, 368,
               333, 301, 273, 247, 223, 202, 183, 165, 150, 135,
               122, 111, 100, 91, 82, 74, 67, 61, 55, 50 >>

\* math.exp(-time_diff / tau) in thousandths
ExpNeg(time_diff, tau) ==
    LET k == (time_diff * 10) \div tau
    IN  IF k + 1 <= Len(ExpTable) THEN ExpTable[k + 1] ELSE 0

\* Neighbor.effective_similarity, in millionths
effective_similarity(neighbor, ref_time, tau) ==
    LET time_diff == Abs(neighbor.start_time - ref_time)
        temporal_penalty == ExpNeg(time_diff, tau)
    IN  neighbor.similarity * temporal_penalty

(***************************************************************************)
(* The vector store's content for the video: what upload_segments wrote.   *)
(***************************************************************************)
SegChoice == [timing : TimingChoices, tokens : WordChoices, vector : EmbChoices]

RECURSIVE StartOf(_, _)
StartOf(inp, i) == IF i = 0 THEN 0 ELSE StartOf(inp, i - 1) + inp[i].timing[1]

StoreOf(inp) ==
    { [ uuid    |-> _segment_uuid(VideoId, StartOf(inp, i) * 15, 0),
        videoId |-> VideoId,
        start_s |-> StartOf(inp, i),
        end_s   |-> StartOf(inp, i) + inp[i].timing[2],
        tokens  |-> inp[i].tokens,
        vector  |-> inp[i].vector ] : i \in 1..Len(inp) }


(***************************************************************************)
(* SegmentRepository.fetch_by_video: objects of the video, sorted by       *)
(* start time, index reassigned in that order.                             *)
(***************************************************************************)
RECURSIVE SortByStart(_)
SortByStart(objs) ==
    IF objs = {} THEN <<>>
    ELSE LET first == CHOOSE o \in objs : \A p \in objs : o.start_s <= p.start_s
         IN  <<first>> \o SortByStart(objs \ {first})

fetch_by_video(objs, video_id) ==
    LET sorted == SortByStart({o \in objs : o.videoId = video_id})
    IN  [ i \in 1..Len(sorted) |->
            [ id         |-> sorted[i].uuid,
              video_id   |-> sorted[i].videoId,
              index      |-> i - 1,
              start_time |-> sorted[i].start_s,
              end_time   |-> sorted[i].end_s,
              word_count |-> sorted[i].tokens,
              embedding  |-> sorted[i].vector,
              neighbors  |-> {},
              group_id   |-> NoGroup ] ]

(***************************************************************************)
(* SegmentRepository.search_neighbors: the k nearest objects of the video  *)
(* by cosine distance, each with similarity = 1 - distance.                *)
(***************************************************************************)
search_neighbors(objs, embedding, video_id, k) ==
    LET cands == {o \in objs : o.videoId = video_id /\ o.vector # NoEmbedding}
        sim(o) == cosine_similarity(embedding, o.vector)
        nearest == IF Cardinality(cands) <= k THEN cands
                   ELSE CHOOSE T \in SUBSET cands :
                          /\ Cardinality(T) = k
                          /\ \A a \in T, b \in cands \ T : sim(a) >= sim(b)
    IN  { [ segment_id |-> o.uuid,
            similarity |-> sim(o),
            start_time |-> o.start_s,
            end_time   |-> o.end_s ] : o \in nearest }

\* GroupingService._build_neighborhoods for one segment
NeighborsOf(objs, segment) ==
    IF segment.embedding = NoEmbedding THEN segment.neighbors
    ELSE { nb \in search_neighbors(objs, segment.embedding, segment.video_id,
                                   config.k_neighbors + 1) :
             /\ nb.segment_id # segment.id
             /\ ~(nb.similarity < config.neighbor_threshold) }

_build_neighborhoods(objs, segs) ==
    [ i \in 1..Len(segs) |-> [segs[i] EXCEPT !.neighbors = NeighborsOf(objs, segs[i])] ]

(***************************************************************************)
(* BoundaryDetector                                                        *)
(***************************************************************************)
\* _compute_cohesion, in millionths
_compute_cohesion(current, next_seg) ==
    LET hits == {nb \in current.neighbors : nb.segment_id = next_seg.id}
    IN  IF hits = {} THEN 0
        ELSE effective_similarity(CHOOSE nb \in hits : TRUE,
                                  current.start_time, config.temporal_tau)

\* variant of should_split that also splits a pair whose cohesion equals the
\* threshold
should_split_AtOrBelow(segs, i, current_word_count) ==
    \/ _compute_cohesion(segs[i], segs[i + 1]) <= config.adjacent_threshold * 1000
    \/ current_word_count >= config.max_group_words

\* variant of should_split that forces a split only once the word count has
\* passed the limit
should_split_Beyond(segs, i, current_word_count) ==
    \/ _compute_cohesion(segs[i], segs[i + 1]) < config.adjacent_threshold * 1000
    \/ current_word_count > config.max_group_words

\* variant of should_split that ignores the word limit
should_split_CohesionOnly(segs, i, current_word_count) ==
    _compute_cohesion(segs[i], segs[i + 1]) < config.adjacent_threshold * 1000

\* should_split for the pair (segs[i], segs[i+1]) (1-based) given the running
\* word count after adding segs[i]
should_split(segs, i, current_word_count) ==
    \/ _compute_cohesion(segs[i], segs[i + 1]) < config.adjacent_threshold * 1000
    \/ current_word_count >= config.max_group_words

\* variant of the loop that keeps the running word count across a boundary
RECURSIVE DetectFrom_KeepsCount(_, _, _, _)
DetectFrom_KeepsCount(segs, i, bnds, current_word_count) ==
    IF i > Len(segs) - 1 THEN bnds
    ELSE LET wc == current_word_count + segs[i].word_count
         IN  IF should_split(segs, i, wc)
             THEN DetectFrom_KeepsCount(segs, i + 1, Append(bnds, i), wc)
             ELSE DetectFrom_KeepsCount(segs, i + 1, bnds, wc)

\* the loop of detect_boundaries from 1-based position i on; boundaries hold
\* the code's 0-based indices
RECURSIVE DetectFrom(_, _, _, _)
DetectFrom(segs, i, bnds, current_word_count) ==
    IF i > Len(segs) - 1 THEN bnds
    ELSE LET wc == current_word_count + segs[i].word_count
         IN  IF should_split(segs, i, wc)
             THEN DetectFrom(segs, i + 1, Append(bnds, i), 0)
             ELSE DetectFrom(segs, i + 1, bnds, wc)

detect_boundaries(segs) == DetectFrom(segs, 1, <<0>>, 0)

(***************************************************************************)
(* SegmentGroup (domain/group.py).  A group holds its group_id and the     *)
(* 1-based positions of its SegmentNodes in the fetched list.              *)
(***************************************************************************)
total_words(segs, g) == SumSeq([k \in 1..Len(g.segments) |-> segs[g.segments[k]].word_count])

RECURSIVE MinOver(_, _)
MinOver(f, S) ==
    LET x == CHOOSE y \in S : TRUE
    IN  IF S = {x} THEN f[x] ELSE Min(f[x], MinOver(f, S \ {x}))

RECURSIVE MaxOver(_, _)
MaxOver(f, S) ==
    LET x == CHOOSE y \in S : TRUE
    IN  IF S = {x} THEN f[x] ELSE Max(f[x], MaxOver(f, S \ {x}))

Members(g) == {g.segments[k] : k \in 1..Len(g.segments)}

start_time(segs, g) == MinOver([i \in Members(g) |-> segs[i].start_time], Members(g))
end_time(segs, g)   == MaxOver([i \in Members(g) |-> segs[i].end_time], Members(g))

\* centroid_embedding: mean of the member embeddings that exist, as
\* <<sum of first coordinates, sum of second coordinates, count>>; the mean
\* is the sum divided by the count, and <<0, 0, 0>> stands for the empty array
RECURSIVE EmbSum(_, _)
EmbSum(segs, idxs) ==
    IF idxs = <<>> THEN <<0, 0, 0>>
    ELSE LET e == segs[Head(idxs)].embedding
             rest == EmbSum(segs, Tail(idxs))
         IN  IF e = NoEmbedding THEN rest
             ELSE <<rest[1] + e[1], rest[2] + e[2], rest[3] + 1>>

centroid_embedding(segs, g) == EmbSum(segs, g.segments)

(***************************************************************************)
(* GroupingService._form_groups (after detect_boundaries)                  *)
(***************************************************************************)
\* variant of the slice segments[start_idx:end_idx] that loses its last segment
Slice_DropsLast(start_idx, end_idx) == [k \in 1..(end_idx - start_idx - 1) |-> start_idx + k]

Slice(start_idx, end_idx) == [k \in 1..(end_idx - start_idx) |-> start_idx + k]

SliceWords(segs, group_segments) ==
    SumSeq([k \in 1..Len(group_segments) |-> segs[group_segments[k]].word_count])

\* variant of the small-slice test with the word comparison reversed
MergesIntoPrevious_WordsReversed(segs, bnds, group_idx, grps) ==
    LET start_idx == bnds[group_idx]
        end_idx == IF group_idx + 1 <= Len(bnds) THEN bnds[group_idx + 1] ELSE Len(segs)
        group_segments == Slice(start_idx, end_idx)
    IN  /\ Len(group_segments) < config.min_group_segments
        /\ group_idx < Len(bnds)
        /\ grps # <<>>
        /\ (total_words(segs, Last(grps)) + SliceWords(segs, group_segments)) * 10
              > config.max_group_words * 12

\* variant of the small-slice test that also applies to the final slice
MergesIntoPrevious_FinalToo(segs, bnds, group_idx, grps) ==
    LET start_idx == bnds[group_idx]
        end_idx == IF group_idx + 1 <= Len(bnds) THEN bnds[group_idx + 1] ELSE Len(segs)
        group_segments == Slice(start_idx, end_idx)
    IN  /\ Len(group_segments) < config.min_group_segments
        /\ grps # <<>>
        /\ (total_words(segs, Last(grps)) + SliceWords(segs, group_segments)) * 10
              <= config.max_group_words * 12

\* the test that sends a boundary slice into the previous group
MergesIntoPrevious(segs, bnds, group_idx, grps) ==
    LET start_idx == bnds[group_idx]
        end_idx == IF group_idx + 1 <= Len(bnds) THEN bnds[group_idx + 1] ELSE Len(segs)
        group_segments == Slice(start_idx, end_idx)
    IN  /\ Len(group_segments) < config.min_group_segments
        /\ group_idx < Len(bnds)
        /\ grps # <<>>
        /\ (total_words(segs, Last(grps)) + SliceWords(segs, group_segments)) * 10
              <= config.max_group_words * 12

\* the loop over boundaries, from the group_idx-th boundary (1-based) on
RECURSIVE FormFrom(_, _, _, _)
FormFrom(segs, bnds, group_idx, grps) ==
    IF group_idx > Len(bnds) THEN grps
    ELSE LET start_idx == bnds[group_idx]
             end_idx == IF group_idx + 1 <= Len(bnds) THEN bnds[group_idx + 1]
                        ELSE Len(segs)
             group_segments == Slice(start_idx, end_idx)
         IN  IF MergesIntoPrevious(segs, bnds, group_idx, grps)
             THEN FormFrom(segs, bnds, group_idx + 1,
                           [grps EXCEPT ![Len(grps)].segments = @ \o group_segments])
             ELSE FormFrom(segs, bnds, group_idx + 1,
                           Append(grps, [group_id |-> Len(grps),
                                         segments |-> group_segments]))

_form_groups(segs, bnds) == FormFrom(segs, bnds, 1, <<>>)

\* seg.group_id as assigned by the groups that hold the segment
GroupIdOf(grps, i) ==
    LET holders == {j \in 1..Len(grps) : i \in Members(grps[j])}
    IN  IF holders = {} THEN NoGroup
        ELSE grps[CHOOSE j \in holders : \A h \in holders : j >= h].group_id

AssignGroupIds(segs, grps) ==
    [ i \in 1..Len(segs) |-> [segs[i] EXCEPT !.group_id = GroupIdOf(grps, i)] ]

(***************************************************************************)
(* GroupMerger                                                             *)
(***************************************************************************)
\* variant of _should_merge without the combined-words limit
_should_merge_NoWordLimit(segs, group1, group2) ==
    LET centroid1 == centroid_embedding(segs, group1)
        centroid2 == centroid_embedding(segs, group2)
    IN  IF centroid1[3] = 0 \/ centroid2[3] = 0 THEN FALSE
        ELSE CosineAtLeast(<<centroid1[1], centroid1[2]>>,
                           <<centroid2[1], centroid2[2]>>,
                           config.merge_centroid_threshold)

_should_merge(segs, group1, group2) ==
    LET combined_words == total_words(segs, group1) + total_words(segs, group2)
        centroid1 == centroid_embedding(segs, group1)
        centroid2 == centroid_embedding(segs, group2)
    IN  IF combined_words * 100 > config.max_group_words * 125 THEN FALSE
        ELSE IF centroid1[3] = 0 \/ centroid2[3] = 0 THEN FALSE
        ELSE \* cosine of the means = cosine of the sums
             CosineAtLeast(<<centroid1[1], centroid1[2]>>,
                           <<centroid2[1], centroid2[2]>>,
                           config.merge_centroid_threshold)

\* variant of the loop that compares a merged group with its new right
\* neighbor
RECURSIVE MergeFrom_Reconsiders(_, _, _, _)
MergeFrom_Reconsiders(segs, grps, i, merged) ==
    IF i > Len(grps) THEN merged
    ELSE IF merged # <<>> /\ _should_merge(segs, Last(merged), grps[i])
         THEN MergeFrom_Reconsiders(segs, grps, i + 1,
                        [merged EXCEPT ![Len(merged)].segments = @ \o grps[i].segments])
         ELSE MergeFrom_Reconsiders(segs, grps, i + 1, Append(merged, grps[i]))

\* the while loop of merge_groups from 1-based position i on
RECURSIVE MergeFrom(_, _, _, _)
MergeFrom(segs, grps, i, merged) ==
    IF i > Len(grps) THEN merged
    ELSE IF i + 1 <= Len(grps) /\ _should_merge(segs, grps[i], grps[i + 1])
         THEN MergeFrom(segs, grps, i + 2,
                        Append(merged, [grps[i] EXCEPT
                                          !.segments = @ \o grps[i + 1].segments]))
         ELSE MergeFrom(segs, grps, i + 1, Append(merged, grps[i]))

\* renumber groups
Renumber(merged) == [idx \in 1..Len(merged) |-> [merged[idx] EXCEPT !.group_id = idx - 1]]

merge_groups(segs, grps) == Renumber(MergeFrom(segs, grps, 1, <<>>))

(***************************************************************************)
(* GroupingService.group_video, step by step                               *)
(***************************************************************************)
GInit ==
    /\ \E n \in 0..MaxSegs : \E inp \in [1..n -> SegChoice] : store = StoreOf(inp)
    /\ segments = <<>>
    /\ boundaries = <<>>
    /\ formed = <<>>
    /\ groups = <<>>
    /\ gpc = "start"
    /\ config = GroupingConfig
    /\ UploadIdle /\ AssemblerIdle /\ ExtractionIdle /\ PipelineIdle /\ FlowIdle /\ ConceptsIdle /\ StoresIdle /\ OverwriteIdle

\* Step 1: fetch; an empty video returns []
FetchByVideo ==
    /\ gpc = "start"
    /\ segments' = fetch_by_video(store, VideoId)
    /\ gpc' = IF segments' = <<>> THEN "done" ELSE "fetched"
    /\ UNCHANGED <<store, boundaries, formed, groups, config>>
    /\ UNCHANGED <<ivars, avars, rvars, pvars, fvars, cvars, svars, ovars>>

\* Step 2
BuildNeighborhoods ==
    /\ gpc = "fetched"
    /\ segments' = _build_neighborhoods(store, segments)
    /\ gpc' = "neighborhoods"
    /\ UNCHANGED <<store, boundaries, formed, groups, config>>
    /\ UNCHANGED <<ivars, avars, rvars, pvars, fvars, cvars, svars, ovars>>

\* Step 3
FormGroups ==
    /\ gpc = "neighborhoods"
    /\ boundaries' = detect_boundaries(segments)
    /\ formed' = _form_groups(segments, boundaries')
    /\ segments' = AssignGroupIds(segments, formed')
    /\ gpc' = "formed"
    /\ UNCHANGED <<store, groups, config>>
    /\ UNCHANGED <<ivars, avars, rvars, pvars, fvars, cvars, svars, ovars>>

\* Step 4
MergeGroups ==
    /\ gpc = "formed"
    /\ groups' = merge_groups(segments, formed)
    /\ segments' = AssignGroupIds(segments, groups')
    /\ gpc' = "done"
    /\ UNCHANGED <<store, boundaries, formed, config>>
    /\ UNCHANGED <<ivars, avars, rvars, pvars, fvars, cvars, svars, ovars>>

GNext == FetchByVideo \/ BuildNeighborhoods \/ FormGroups \/ MergeGroups

SpecGrouping == GInit /\ [][GNext]_vars

(***************************************************************************)
(* Properties of the grouping engine                                       *)
(***************************************************************************)
Grouped == gpc = "done" /\ segments # <<>>

HoldersOf(grps, i) == {j \in 1..Len(grps) : i \in Members(grps[j])}

\* every fetched segment is a member of exactly one group, once
Partitioned(grps) ==
    /\ \A i \in 1..Len(segments) : Cardinality(HoldersOf(grps, i)) = 1
    /\ \A j \in 1..Len(grps) :
         /\ Members(grps[j]) \subseteq 1..Len(segments)
         /\ Cardinality(Members(grps[j])) = Len(grps[j].segments)

IntervalsDisjoint(grps) ==
    \A j, k \in 1..Len(grps) :
        j < k => end_time(segments, grps[j]) <= start_time(segments, grps[k])

IdsInOrder(grps) ==
    /\ \A j \in 1..Len(grps) : grps[j].group_id = j - 1
    /\ \A i \in 1..Len(segments), j \in 1..Len(grps) :
         i \in Members(grps[j]) => segments[i].group_id = grps[j].group_id

\* each group is a run of consecutive segments and the runs follow each other
ConsecutiveRuns(grps) ==
    /\ \A j \in 1..Len(grps) :
         /\ grps[j].segments # <<>>
         /\ \A k \in 1..(Len(grps[j].segments) - 1) :
              grps[j].segments[k + 1] = grps[j].segments[k] + 1
    /\ \A j \in 1..(Len(grps) - 1) :
         grps[j + 1].segments[1] = Last(grps[j].segments) + 1

StartsIncrease(grps) ==
    \A j \in 1..(Len(grps) - 1) :
        start_time(segments, grps[j]) < start_time(segments, grps[j + 1])

\* no segment's interval extends past the start of the next segment
SegmentsDisjoint ==
    \A i \in 1..(Len(segments) - 1) : segments[i].end_time <= segments[i + 1].start_time

\* C1 as stated: the returned groups partition the fetched segments and their
\* time intervals are non-overlapping and increase with group_id.
C1_AsStated ==
    Grouped => /\ Partitioned(groups)
               /\ IdsInOrder(groups)
               /\ IntervalsDisjoint(groups)

\* C1 (amended): the returned groups partition the fetched segments into runs
\* of consecutive segments numbered in order, so that group start times
\* increase with group_id; the groups' intervals are non-overlapping whenever
\* no segment's interval extends past the start of the next segment.
C1_PartitionInOrder ==
    Grouped => /\ Partitioned(groups)
               /\ IdsInOrder(groups)
               /\ ConsecutiveRuns(groups)
               /\ StartsIncrease(groups)
               /\ (SegmentsDisjoint => IntervalsDisjoint(groups))

\* three disjoint segments in two groups, one of them produced by a merge
C1_Witness ==
    /\ Grouped
    /\ SegmentsDisjoint
    /\ Len(segments) = 3
    /\ Len(groups) = 2
    /\ Len(boundaries) = 3

\* the group is exactly one boundary slice
IsBoundarySlice(g) ==
    \E k \in 1..Len(boundaries) :
        g.segments = Slice(boundaries[k],
                           IF k + 1 <= Len(boundaries) THEN boundaries[k + 1]
                           ELSE Len(segments))

WordsBeforeLast(g) ==
    total_words(segments, g) - segments[Last(g.segments)].word_count

\* C2 as stated: every returned group has total_words <= 1.25 * max_group_words.
C2_AsStated ==
    Grouped => \A j \in 1..Len(groups) :
                  total_words(segments, groups[j]) * 100 <= config.max_group_words * 125

\* C2 (amended): every returned group has total_words <= 1.25 *
\* max_group_words, or it is a single boundary slice whose words before its
\* last segment are fewer than max_group_words.
C2_WordsBounded ==
    Grouped => \A j \in 1..Len(groups) :
                  \/ total_words(segments, groups[j]) * 100 <= config.max_group_words * 125
                  \/ /\ IsBoundarySlice(groups[j])
                     /\ WordsBeforeLast(groups[j]) < config.max_group_words

\* the centroid pass merged two groups into one that exceeds max_group_words
C2_Witness ==
    /\ Grouped
    /\ Len(groups) < Len(formed)
    /\ \E j \in 1..Len(groups) :
         /\ ~IsBoundarySlice(groups[j])
         /\ total_words(segments, groups[j]) > config.max_group_words

\* is there a boundary between positions i and i+1 (1-based)?
BoundaryAfter(i) == \E k \in 1..Len(boundaries) : boundaries[k] = i

\* current_word_count of detect_boundaries after adding segments[i]
RunningWords(i) ==
    LET from == CHOOSE b \in 1..i :
                   /\ (b = 1 \/ BoundaryAfter(b - 1))
                   /\ \A c \in (b + 1)..i : ~BoundaryAfter(c - 1)
    IN  SumSeq([k \in 1..(i - from + 1) |-> segments[from + k - 1].word_count])

Cohesive(i) ==
    _compute_cohesion(segments[i], segments[i + 1]) >= config.adjacent_threshold * 1000

SameGroup(grps, i, j) == HoldersOf(grps, i) = HoldersOf(grps, j)

\* the boundary after i was undone by _form_groups: the slice starting at
\* i+1 was too small and went into the previous group
SmallSliceMerged(i) == BoundaryAfter(i) /\ SameGroup(formed, i, i + 1)

\* the groups formed on either side of the boundary after i pass the
\* centroid merge test
CentroidMerged(i) ==
    \E a \in 1..(Len(formed) - 1) :
        /\ i \in Members(formed[a])
        /\ i + 1 \in Members(formed[a + 1])
        /\ _should_merge(segments, formed[a], formed[a + 1])

\* C3 as stated: consecutive segments share a group only if their effective
\* similarity is >= adjacent_threshold or the running word count had reached
\* max_group_words.
C3_AsStated ==
    Grouped => \A i \in 1..(Len(segments) - 1) :
                  SameGroup(groups, i, i + 1) =>
                      \/ Cohesive(i)
                      \/ RunningWords(i) >= config.max_group_words

\* C3 (amended): a boundary is placed between consecutive segments exactly
\* when their effective similarity is below adjacent_threshold or the running
\* word count has reached max_group_words; segments with no boundary between
\* them share a returned group, and segments that share a returned group
\* have no boundary between them, or the boundary was removed by the
\* small-group merge, or their two groups passed the centroid merge test.
C3_AdjacentPairs ==
    Grouped => \A i \in 1..(Len(segments) - 1) :
                  /\ BoundaryAfter(i) <=>
                        (~Cohesive(i) \/ RunningWords(i) >= config.max_group_words)
                  /\ ~BoundaryAfter(i) => SameGroup(groups, i, i + 1)
                  /\ SmallSliceMerged(i) => SameGroup(groups, i, i + 1)
                  /\ SameGroup(groups, i, i + 1) =>
                        \/ ~BoundaryAfter(i)
                        \/ SmallSliceMerged(i)
                        \/ CentroidMerged(i)

\* a pair kept together by cohesion, and a pair split by the word limit
C3_Witness ==
    /\ Grouped
    /\ \E i, j \in 1..(Len(segments) - 1) :
         /\ Cohesive(i) /\ ~BoundaryAfter(i) /\ SameGroup(groups, i, i + 1)
         /\ Cohesive(j) /\ BoundaryAfter(j) /\ ~SameGroup(groups, j, j + 1)

\* C4 as stated: every returned group but the last has at least
\* min_group_segments segments.
C4_AsStated ==
    Grouped => \A j \in 1..(Len(groups) - 1) :
                  Len(groups[j].segments) >= config.min_group_segments

\* the formed group just before the one that starts at segment f
FormedBefore(f) == formed[(CHOOSE a \in 1..Len(formed) : formed[a].segments[1] = f) - 1]

SliceFrom(f) ==
    LET k == CHOOSE k \in 1..Len(boundaries) : boundaries[k] = f - 1
    IN  Slice(boundaries[k],
              IF k + 1 <= Len(boundaries) THEN boundaries[k + 1] ELSE Len(segments))

\* C4 (amended): a returned group other than the last that has fewer than
\* min_group_segments segments starts with a boundary slice that could not
\* be merged backwards: it is the first slice of the video, or adding it to
\* the previous group would have exceeded 1.2 * max_group_words.
C4_SmallGroups ==
    Grouped => \A j \in 1..(Len(groups) - 1) :
                  Len(groups[j].segments) < config.min_group_segments =>
                      LET f == groups[j].segments[1]
                      IN  \/ f = 1
                          \/ /\ BoundaryAfter(f - 1)
                             /\ \E a \in 1..Len(formed) : formed[a].segments[1] = f
                             /\ (total_words(segments, FormedBefore(f))
                                   + SliceWords(segments, SliceFrom(f))) * 10
                                  > config.max_group_words * 12

\* a too-small slice was merged into the previous group and every returned
\* group but the last has min_group_segments segments
C4_Witness ==
    /\ Grouped
    /\ Len(groups) >= 2
    /\ Len(boundaries) > Len(formed)
    /\ \A j \in 1..(Len(groups) - 1) :
          Len(groups[j].segments) >= config.min_group_segments

(***************************************************************************)
(* SegmentRepository.upload_segments: every segment of the batch is added  *)
(* under the uuid derived from its video id and start time.  uuid5 is      *)
(* taken to be collision-free, so a uuid is represented by its key string. *)
(* start_s is whole seconds plus a fraction in units of 1e-7 s.            *)
(***************************************************************************)
MaxWholeSeconds == 1
VideoIds == {"v1", "v2"}
FracChoices == {0, 4, 6, 14, 9999996}
TranscriptSegments == [video_id : VideoIds, whole : 0..MaxWholeSeconds, frac : FracChoices]

UInit ==
    /\ batch \in [1..2 -> TranscriptSegments]
    /\ collection = {}
    /\ assigned = <<>>
    /\ GroupingIdle /\ AssemblerIdle /\ ExtractionIdle /\ PipelineIdle /\ FlowIdle /\ ConceptsIdle /\ StoresIdle /\ OverwriteIdle

\* one turn of the loop: batch.add_object(uuid=segment_uuid, properties=...);
\* an object added under a uuid already present replaces it
AddObject ==
    /\ batch # <<>>
    /\ LET segment == Head(batch)
           segment_uuid == _segment_uuid(segment.video_id, segment.whole, segment.frac)
       IN  /\ collection' = {o \in collection : o.uuid # segment_uuid}
                               \cup {[uuid |-> segment_uuid, properties |-> segment]}
           /\ assigned' = Append(assigned, [segment |-> segment, uuid |-> segment_uuid])
    /\ batch' = Tail(batch)
    /\ UNCHANGED <<gvars, avars, rvars, pvars, fvars, cvars, svars, ovars>>

UNext == AddObject

SpecUpload == UInit /\ [][UNext]_vars

SameVideo(a, b) == a.segment.video_id = b.segment.video_id

SameStart(a, b) ==
    a.segment.whole = b.segment.whole /\ a.segment.frac = b.segment.frac

\* start_s in whole microseconds, rounded to the nearest (no start time of
\* the model lies exactly between two microseconds)
Micros(a) == a.segment.whole * 1000000 + (a.segment.frac + 5) \div 10

\* C9 as stated: two segments get the same id if and only if their video_id
\* is equal and their start_s is equal.
C9_AsStated ==
    \A i, j \in 1..Len(assigned) :
        (assigned[i].uuid = assigned[j].uuid)
            <=> (SameVideo(assigned[i], assigned[j]) /\ SameStart(assigned[i], assigned[j]))

\* C9 (amended): two segments get the same id if and only if their video_id
\* is equal and their start_s values are equal when rounded to the
\* microsecond (the six decimals the id is derived from).
C9_SameMicrosecond ==
    \A i, j \in 1..Len(assigned) :
        (assigned[i].uuid = assigned[j].uuid)
            <=> (SameVideo(assigned[i], assigned[j])
                   /\ Micros(assigned[i]) = Micros(assigned[j]))

\* two segments with different start times were added under one uuid and
\* the collection holds a single object
C9_Witness ==
    /\ Len(assigned) = 2
    /\ assigned[1].uuid = assigned[2].uuid
    /\ ~SameStart(assigned[1], assigned[2])
    /\ Cardinality(collection) = 1

(***************************************************************************)
(* PunctuationWorker: the segment assembler.  A text is a sequence of      *)
(* characters; token limits are scaled down, the order min < max is kept.  *)
(***************************************************************************)
MaxWords == 5
ScaledMinTokens == 2
ScaledMaxTokens == 3

\* the punctuated words the model draws from: plain, ending a sentence,
\* ending a sentence inside a bracket, a lone bracket
WordTexts == { <<"a">>, <<"b", ".">>, <<"c", "?", ")">>, <<")">> }

\* characters stripped from the right before looking for . ! ?
ClosingChars == {"\"", "'", ")", "]", "}"}

\* " ".join(texts)
RECURSIVE Join(_)
Join(texts) ==
    IF texts = <<>> THEN <<>>
    ELSE IF Len(texts) = 1 THEN texts[1]
    ELSE texts[1] \o <<" ">> \o Join(Tail(texts))

RECURSIVE RStrip(_)
RStrip(word) ==
    IF word # <<>> /\ Last(word) \in ClosingChars
    THEN RStrip(SubSeq(word, 1, Len(word) - 1))
    ELSE word

_word_ends_sentence(word) ==
    LET trimmed == RStrip(word)
    IN  trimmed # <<>> /\ Last(trimmed) \in {".", "!", "?"}

\* a timeline of n words, one tick each
_build_word_timeline(n) == [idx \in 1..n |-> [start |-> idx - 1, end |-> idx]]

_merge_words_with_timestamps(timeline, words) ==
    LET limit == Min(Len(timeline), Len(words))
    IN  [idx \in 1..limit |-> [text  |-> words[idx],
                               start |-> timeline[idx].start,
                               end   |-> timeline[idx].end]]

\* variant of _build_sentence that keeps only the first word's text
_build_sentence_FirstWord(words) ==
    [text |-> words[1].text, start |-> words[1].start,
     end |-> Last(words).end, token_count |-> Len(words)]

_build_sentence(words) ==
    [text        |-> Join([k \in 1..Len(words) |-> words[k].text]),
     start       |-> words[1].start,
     end         |-> Last(words).end,
     token_count |-> Len(words)]

RECURSIVE SentencesFrom(_, _, _)
SentencesFrom(words, current, acc) ==
    IF words = <<>>
    THEN IF current # <<>> THEN Append(acc, _build_sentence(current)) ELSE acc
    ELSE LET cur == Append(current, Head(words))
         IN  IF _word_ends_sentence(Head(words).text)
             THEN SentencesFrom(Tail(words), <<>>, Append(acc, _build_sentence(cur)))
             ELSE SentencesFrom(Tail(words), cur, acc)

_words_to_sentences(words) == SentencesFrom(words, <<>>, <<>>)

MakeSegment(video_id, current, token_count) ==
    [video_id |-> video_id,
     text     |-> Join([k \in 1..Len(current) |-> current[k].text]),
     start_s  |-> current[1].start,
     end_s    |-> Last(current).end,
     tokens   |-> token_count]

\* variant of the chunker loop that flushes whenever the next sentence would
\* pass max_tokens, whatever the buffer holds
RECURSIVE SegmentsFrom_FlushAtMax(_, _, _, _, _, _, _)
SegmentsFrom_FlushAtMax(sents, video_id, min_tokens, max_tokens, current, token_count, acc) ==
    IF sents = <<>>
    THEN IF current # <<>> THEN Append(acc, MakeSegment(video_id, current, token_count))
         ELSE acc
    ELSE LET sentence == Head(sents)
             should_flush == /\ current # <<>>
                             /\ token_count + sentence.token_count > max_tokens
         IN  IF should_flush
             THEN SegmentsFrom_FlushAtMax(Tail(sents), video_id, min_tokens, max_tokens,
                               <<sentence>>, sentence.token_count,
                               Append(acc, MakeSegment(video_id, current, token_count)))
             ELSE SegmentsFrom_FlushAtMax(Tail(sents), video_id, min_tokens, max_tokens,
                               Append(current, sentence),
                               token_count + sentence.token_count, acc)

\* variant of the chunker loop that loses the sentence in front of which it
\* flushes
RECURSIVE SegmentsFrom_DropsSentence(_, _, _, _, _, _, _)
SegmentsFrom_DropsSentence(sents, video_id, min_tokens, max_tokens, current, token_count, acc) ==
    IF sents = <<>>
    THEN IF current # <<>> THEN Append(acc, MakeSegment(video_id, current, token_count))
         ELSE acc
    ELSE LET sentence == Head(sents)
             should_flush == /\ current # <<>>
                             /\ token_count >= min_tokens
                             /\ token_count + sentence.token_count > max_tokens
         IN  IF should_flush
             THEN SegmentsFrom_DropsSentence(Tail(sents), video_id, min_tokens, max_tokens,
                               <<>>, 0,
                               Append(acc, MakeSegment(video_id, current, token_count)))
             ELSE SegmentsFrom_DropsSentence(Tail(sents), video_id, min_tokens, max_tokens,
                               Append(current, sentence),
                               token_count + sentence.token_count, acc)

RECURSIVE SegmentsFrom(_, _, _, _, _, _, _)
SegmentsFrom(sents, video_id, min_tokens, max_tokens, current, token_count, acc) ==
    IF sents = <<>>
    THEN IF current # <<>> THEN Append(acc, MakeSegment(video_id, current, token_count))
         ELSE acc
    ELSE LET sentence == Head(sents)
             should_flush == /\ current # <<>>
                             /\ token_count >= min_tokens
                             /\ token_count + sentence.token_count > max_tokens
         IN  IF should_flush
             THEN SegmentsFrom(Tail(sents), video_id, min_tokens, max_tokens,
                               <<sentence>>, sentence.token_count,
                               Append(acc, MakeSegment(video_id, current, token_count)))
             ELSE SegmentsFrom(Tail(sents), video_id, min_tokens, max_tokens,
                               Append(current, sentence),
                               token_count + sentence.token_count, acc)

_sentences_to_segments(sents, video_id, min_tokens, max_tokens) ==
    SegmentsFrom(sents, video_id, min_tokens, max_tokens, <<>>, 0, <<>>)

AInit ==
    /\ \E n \in 0..MaxWords : word_timeline = _build_word_timeline(n)
    /\ \E n \in 0..MaxWords : punctuated_words \in [1..n -> WordTexts]
    /\ timed_words = <<>>
    /\ sentences = <<>>
    /\ transcript = <<>>
    /\ apc = "start"
    /\ GroupingIdle /\ UploadIdle /\ ExtractionIdle /\ PipelineIdle /\ FlowIdle /\ ConceptsIdle /\ StoresIdle /\ OverwriteIdle

MergeWords ==
    /\ apc = "start"
    /\ timed_words' = _merge_words_with_timestamps(word_timeline, punctuated_words)
    /\ apc' = "merged"
    /\ UNCHANGED <<word_timeline, punctuated_words, sentences, transcript>>
    /\ UNCHANGED <<gvars, ivars, rvars, pvars, fvars, cvars, svars, ovars>>

WordsToSentences ==
    /\ apc = "merged"
    /\ sentences' = _words_to_sentences(timed_words)
    /\ apc' = "sentences"
    /\ UNCHANGED <<word_timeline, punctuated_words, timed_words, transcript>>
    /\ UNCHANGED <<gvars, ivars, rvars, pvars, fvars, cvars, svars, ovars>>

\* no segments: RuntimeError
SentencesToSegments ==
    /\ apc = "sentences"
    /\ transcript' = _sentences_to_segments(sentences, VideoId,
                                            ScaledMinTokens, ScaledMaxTokens)
    /\ apc' = IF transcript' = <<>> THEN "error" ELSE "done"
    /\ UNCHANGED <<word_timeline, punctuated_words, timed_words, sentences>>
    /\ UNCHANGED <<gvars, ivars, rvars, pvars, fvars, cvars, svars, ovars>>

ANext == MergeWords \/ WordsToSentences \/ SentencesToSegments

SpecAssembler == AInit /\ [][ANext]_vars

Assembled == apc \in {"done", "error"}

\* C10: the segment texts joined by single spaces equal the first
\* min(len(timeline), len(words)) punctuated words joined by single spaces,
\* and the segments' token counts add up to that number of words.
C10_TextPreserved ==
    Assembled =>
        LET limit == Min(Len(word_timeline), Len(punctuated_words))
        IN  /\ Join([k \in 1..Len(transcript) |-> transcript[k].text])
                 = Join(SubSeq(punctuated_words, 1, limit))
            /\ SumSeq([k \in 1..Len(transcript) |-> transcript[k].tokens]) = limit

\* several segments, one of them with several sentences, from lists of
\* different lengths
C10_Witness ==
    /\ apc = "done"
    /\ Len(transcript) >= 2
    /\ Len(sentences) > Len(transcript)
    /\ Len(word_timeline) # Len(punctuated_words)
    /\ \E k \in 1..Len(sentences) : sentences[k].token_count >= 2

(***************************************************************************)
(* Relationship detection (IntraGroupDetector, InterGroupDetector,         *)
(* RelationshipExtractor).  A group text is a sequence of words separated  *)
(* by single spaces; only the words below occur, so of all the patterns    *)
(* and cue phrases just "<source> requires <target>", "<source> uses       *)
(* <target>" and "recall that" can match.  A uuid5 is represented by the   *)
(* key it hashes.                                                          *)
(***************************************************************************)
MaxConcepts == 2

\* str.lower() on the words and names of the model
Lower(word) == IF word = "Alpha" THEN "alpha" ELSE word

\* len(word); "xfill" stands for one word of 120 letters
TokLen(word) ==
    CASE word \in {"alpha", "Alpha"} -> 5
      [] word \in {"beta", "uses", "that"} -> 4
      [] word \in {"ai", "ml"} -> 2
      [] word = "requires" -> 8
      [] word = "recall" -> 6
      [] word = "xfill" -> 120

\* offset of the k-th word (1-based) in the text
RECURSIVE Pos(_, _)
Pos(text, k) == IF k = 1 THEN 0 ELSE Pos(text, k - 1) + TokLen(text[k - 1]) + 1

EndPos(text, k) == Pos(text, k) + TokLen(text[k])

TextLen(text) == IF text = <<>> THEN 0 ELSE EndPos(text, Len(text))

\* len(text[a:b].strip())
StrippedLen(text, a, b) ==
    LET IsSpace(p) == \E k \in 2..Len(text) : Pos(text, k) - 1 = p
        lead  == IF a < b /\ IsSpace(a) THEN 1 ELSE 0
        trail == IF b - 1 >= a + lead /\ IsSpace(b - 1) THEN 1 ELSE 0
    IN  IF b <= a THEN 0 ELSE b - a - lead - trail

\* normalize_for_pattern / normalize_text: lower case (whitespace is single)
normalize_for_pattern(text) == [k \in 1..Len(text) |-> Lower(text[k])]

\* positions where create_concept_regex(name) matches in a normalized text
ConceptMatches(normalized_text, name) ==
    {k \in 1..Len(normalized_text) : normalized_text[k] = Lower(name)}

\* RelationshipType members with is_intra_group, in the order of the enum
IntraTypes == <<"defines", "causes", "requires", "contradicts", "exemplifies",
                "implements", "uses">>

\* the word that makes a pattern of the type match between source and target
PatternVerb(rel_type) ==
    CASE rel_type = "requires" -> "requires"
      [] rel_type = "uses" -> "uses"
      [] OTHER -> "(none)"

NoResult == [found |-> FALSE]

\* find_relationship_in_text: evidence length and confidence of the first match
find_relationship_in_text(text, source_concept, target_concept, rel_type) ==
    LET normalized_text == normalize_for_pattern(text)
        hits == {k \in 1..(Len(text) - 2) :
                    /\ k \in ConceptMatches(normalized_text, source_concept.name)
                    /\ normalized_text[k + 1] = PatternVerb(rel_type)
                    /\ k + 2 \in ConceptMatches(normalized_text, target_concept.name)}
    IN  IF hits = {} THEN NoResult
        ELSE LET k == CHOOSE h \in hits : \A g \in hits : h <= g
                 start == Max(0, Pos(text, k) - 50)
                 end == Min(TextLen(text), EndPos(text, k + 2) + 50)
             IN  [found |-> TRUE,
                  evidence_len |-> StrippedLen(text, start, end),
                  confidence |-> Min(950, 700 + (source_concept.importance
                                                 + target_concept.importance) \div 4)]

PROXIMITY_THRESHOLD == 100

\* detect_proximity_relationship
detect_proximity_relationship(source_concept, target_concept, group_text) ==
    LET normalized_text == normalize_for_pattern(group_text)
        source_matches == ConceptMatches(normalized_text, source_concept.name)
        target_matches == ConceptMatches(normalized_text, target_concept.name)
        Distance(pr) == Abs(Pos(group_text, pr[1]) - Pos(group_text, pr[2]))
        pairs == source_matches \X target_matches
        \* the first pair of the double loop with the smallest distance
        closest == CHOOSE pr \in pairs : \A q \in pairs :
                      \/ Distance(pr) < Distance(q)
                      \/ /\ Distance(pr) = Distance(q)
                         /\ (pr[1] < q[1] \/ (pr[1] = q[1] /\ pr[2] <= q[2]))
    IN  IF pairs = {} THEN NoResult
        ELSE IF Distance(closest) >= PROXIMITY_THRESHOLD THEN NoResult
        ELSE LET start == Max(0, Min(Pos(group_text, closest[1]),
                                     Pos(group_text, closest[2])) - 30)
                 end == Min(TextLen(group_text),
                            Max(EndPos(group_text, closest[1]),
                                EndPos(group_text, closest[2])) + 30)
             IN  [found |-> TRUE,
                  type |-> "uses",
                  evidence_len |-> StrippedLen(group_text, start, end),
                  confidence |-> 500 + (PROXIMITY_THRESHOLD - Distance(closest)) * 2]

\* Concept._generate_uuid
Concept_generate_uuid(video_id, group_id, name) ==
    video_id \o ":" \o ToString(group_id) \o ":" \o Lower(name)

\* Relationship._generate_uuid
Relationship_generate_uuid(source_concept_id, target_concept_id, type) ==
    source_concept_id \o ":" \o target_concept_id \o ":" \o type

\* Relationship(...) with __post_init__: the confidence is clamped to [0, 1];
\* evidence shorter than 10 characters raises ValueError (valid = FALSE)
Relationship(source, target, type, confidence, evidence_len, detection_method) ==
    [source_concept_id |-> source.id,
     target_concept_id |-> target.id,
     type              |-> type,
     confidence        |-> Max(0, Min(1000, confidence)),
     detection_method  |-> detection_method,
     source_group_id   |-> source.group_id,
     target_group_id   |-> target.group_id,
     temporal_distance |-> Abs(source.first_mention_time - target.first_mention_time),
     id                |-> Relationship_generate_uuid(source.id, target.id, type),
     valid             |-> evidence_len >= 10]

\* relationships.append(Relationship(...)) on the list built so far, or the
\* ValueError that ends the detection
Emit(acc, relationship) ==
    IF acc.error THEN acc
    ELSE IF ~relationship.valid THEN [acc EXCEPT !.error = TRUE]
    ELSE [acc EXCEPT !.rels = Append(@, relationship)]

HasPair(acc, source, target) ==
    \E k \in 1..Len(acc.rels) :
        /\ acc.rels[k].source_concept_id = source.id
        /\ acc.rels[k].target_concept_id = target.id

\* the embedding the provider returns for a concept (cached under its id)
_get_embedding(concept) == IF Lower(concept.name) = "alpha" THEN <<1, 0>> ELSE <<3, 4>>

vector_similarity_threshold == 600
\* len("Concept definitions are semantically aligned (similarity 0.60).")
AlignedEvidenceLen == 63

\* variant of the type loop that stops at the first type whose pattern
\* matches, whatever its confidence
RECURSIVE TypesTriedFrom_BreakOnMatch(_, _, _, _, _)
TypesTriedFrom_BreakOnMatch(group_text, source, target, cfg, t) ==
    IF t > Len(IntraTypes) THEN <<>>
    ELSE LET result == find_relationship_in_text(group_text, source, target, IntraTypes[t])
         IN  IF result.found
             THEN <<IntraTypes[t]>>
             ELSE <<IntraTypes[t]>> \o
                  TypesTriedFrom_BreakOnMatch(group_text, source, target, cfg, t + 1)

\* the types handed to find_relationship_in_text for a pair, from the t-th
\* type on: the loop breaks only after a match with confidence >=
\* min_confidence
RECURSIVE TypesTriedFrom(_, _, _, _, _)
TypesTriedFrom(group_text, source, target, cfg, t) ==
    IF t > Len(IntraTypes) THEN <<>>
    ELSE LET result == find_relationship_in_text(group_text, source, target, IntraTypes[t])
         IN  IF result.found /\ result.confidence >= cfg.min_confidence
             THEN <<IntraTypes[t]>>
             ELSE <<IntraTypes[t]>> \o
                  TypesTriedFrom(group_text, source, target, cfg, t + 1)

\* body of the double loop of IntraGroupDetector.detect_relationships
IntraPair(acc, group_text, source, target, cfg) ==
    LET rel_type == Last(TypesTriedFrom(group_text, source, target, cfg, 1))
        result == find_relationship_in_text(group_text, source, target, rel_type)
        a1 == IF result.found /\ result.confidence >= cfg.min_confidence
              THEN Emit(acc, Relationship(source, target, rel_type,
                                          result.confidence, result.evidence_len,
                                          "pattern_matching"))
              ELSE acc
        proximity_result == detect_proximity_relationship(source, target, group_text)
        a2 == IF /\ ~a1.error
                 /\ ~HasPair(a1, source, target)
                 /\ proximity_result.found
                 /\ proximity_result.confidence >= cfg.min_confidence
              THEN Emit(a1, Relationship(source, target, proximity_result.type,
                                         proximity_result.confidence,
                                         proximity_result.evidence_len,
                                         "pattern_matching"))
              ELSE a1
        similarity == cosine_similarity(_get_embedding(source), _get_embedding(target))
        confidence == Max(cfg.min_confidence,
                          (similarity * 600) \div 1000
                              + (source.confidence + target.confidence) \div 4)
    IN  IF /\ ~a2.error
           /\ cfg.openai_client
           /\ ~HasPair(a2, source, target)
           /\ similarity >= vector_similarity_threshold
        THEN Emit(a2, Relationship(source, target, "uses", confidence,
                                   AlignedEvidenceLen, "vector_similarity"))
        ELSE a2

\* the double loop from the p-th pair on (pairs counted row by row from 0)
RECURSIVE IntraFrom(_, _, _, _)
IntraFrom(acc, extracted_concepts, p, cfg) ==
    LET concepts == extracted_concepts.concepts
        n == Len(concepts)
        i == (p \div n) + 1
        j == (p % n) + 1
    IN  IF n = 0 \/ p >= n * n \/ acc.error THEN acc
        ELSE IF i = j THEN IntraFrom(acc, extracted_concepts, p + 1, cfg)
        ELSE IntraFrom(IntraPair(acc, extracted_concepts.group_text,
                                 concepts[i], concepts[j], cfg),
                       extracted_concepts, p + 1, cfg)

\* IntraGroupDetector.detect_relationships
intra_detect_relationships(extracted_concepts, cfg) ==
    IntraFrom([rels |-> <<>>, error |-> FALSE], extracted_concepts, 0, cfg)

\* detect_cue_phrase_relationship: "recall that" is the one cue phrase the
\* words of the model can form (type references); the target concept has to
\* be mentioned from 100 characters before to 200 after the cue
detect_cue_phrase_relationship(source_concept, target_concept, source_group_text, target_group_text) ==
    LET normalized_source == normalize_for_pattern(source_group_text)
        cues == {k \in 1..(Len(normalized_source) - 1) :
                    normalized_source[k] = "recall" /\ normalized_source[k + 1] = "that"}
        k == CHOOSE c \in cues : \A d \in cues : c <= d
        cue_pos == Pos(source_group_text, k)
        search_start == Max(0, cue_pos - 100)
        search_end == Min(TextLen(source_group_text), cue_pos + 200)
        mentioned == \E m \in 1..Len(normalized_source) :
                        /\ normalized_source[m] = Lower(target_concept.name)
                        /\ Pos(source_group_text, m) >= search_start
                        /\ EndPos(source_group_text, m) <= search_end
        evidence_start == Max(0, cue_pos - 50)
        evidence_end == Min(TextLen(source_group_text), cue_pos + 150)
    IN  IF cues = {} THEN NoResult
        ELSE IF ~mentioned THEN NoResult
        ELSE [found |-> TRUE,
              type |-> "references",
              evidence_len |-> StrippedLen(source_group_text, evidence_start, evidence_end),
              confidence |-> 750 + (source_concept.importance * 150) \div 1000]

similarity_threshold == 750
temporal_window == 300
\* the shortest evidence of the vector step, "Semantically similar concepts
\* (similarity: 1.00) appearing within 0s"
SimilarEvidenceLen == 68

\* body of the concept loops of InterGroupDetector.detect_relationships
InterPair(acc, source_group, target_group, source_concept, target_concept, cfg) ==
    LET cue_result == detect_cue_phrase_relationship(source_concept, target_concept,
                                                     source_group.group_text,
                                                     target_group.group_text)
        similarity == cosine_similarity(_get_embedding(source_concept),
                                        _get_embedding(target_concept))
        temporal_distance == Abs(source_concept.first_mention_time
                                   - target_concept.first_mention_time)
        confidence == (similarity * 7) \div 10
                        + ((temporal_window - temporal_distance) * 200) \div temporal_window
    IN  IF acc.error THEN acc
        ELSE IF cue_result.found /\ cue_result.confidence >= cfg.min_confidence
        THEN Emit(acc, Relationship(source_concept, target_concept, cue_result.type,
                                    cue_result.confidence, cue_result.evidence_len,
                                    "cue_phrase"))
        ELSE IF ~cfg.openai_client THEN acc
        ELSE IF /\ similarity >= similarity_threshold
                /\ temporal_distance <= temporal_window
                /\ confidence >= cfg.min_confidence
        THEN Emit(acc, Relationship(source_concept, target_concept, "builds_on",
                                    confidence, SimilarEvidenceLen, "vector_similarity"))
        ELSE acc

\* the concept loops for one pair of groups, from the p-th concept pair on
RECURSIVE InterConceptsFrom(_, _, _, _, _)
InterConceptsFrom(acc, source_group, target_group, p, cfg) ==
    LET ns == Len(source_group.concepts)
        nt == Len(target_group.concepts)
    IN  IF nt = 0 \/ p >= ns * nt \/ acc.error THEN acc
        ELSE InterConceptsFrom(
                 InterPair(acc, source_group, target_group,
                           source_group.concepts[(p \div nt) + 1],
                           target_group.concepts[(p % nt) + 1], cfg),
                 source_group, target_group, p + 1, cfg)

\* video_concepts.sort(key=lambda ec: ec.group_id)
RECURSIVE SortByGroupId(_)
SortByGroupId(ecs) ==
    IF Len(ecs) <= 1 THEN ecs
    ELSE LET h == Head(ecs)
             rest == SortByGroupId(Tail(ecs))
         IN  SelectSeq(rest, LAMBDA x : x.group_id < h.group_id)
                \o <<h>> \o SelectSeq(rest, LAMBDA x : x.group_id >= h.group_id)

\* the group loops "for i ... for j ... if j <= i: continue", from the p-th
\* pair of positions on
RECURSIVE InterGroupsFrom(_, _, _, _)
InterGroupsFrom(acc, video_concepts, p, cfg) ==
    LET n == Len(video_concepts)
        i == (p \div n) + 1
        j == (p % n) + 1
    IN  IF n = 0 \/ p >= n * n \/ acc.error THEN acc
        ELSE IF j <= i THEN InterGroupsFrom(acc, video_concepts, p + 1, cfg)
        ELSE InterGroupsFrom(
                 InterConceptsFrom(acc, video_concepts[i], video_concepts[j], 0, cfg),
                 video_concepts, p + 1, cfg)

\* InterGroupDetector.detect_relationships
inter_detect_relationships(all_concepts, video_id, cfg) ==
    LET video_concepts == SortByGroupId(SelectSeq(all_concepts,
                                                  LAMBDA ec : ec.video_id = video_id))
    IN  InterGroupsFrom([rels |-> <<>>, error |-> FALSE], video_concepts, 0, cfg)

(***************************************************************************)
(* RelationshipExtractor.extract_from_video on two groups of one video     *)
(***************************************************************************)
\* what the concept extraction can return for a group: name, importance
\* and confidence (thousandths)
ConceptChoices ==
    { [name |-> "alpha", importance |-> 200, confidence |-> 400],
      [name |-> "Alpha", importance |-> 800, confidence |-> 1000],
      [name |-> "beta",  importance |-> 800, confidence |-> 1000] }

GroupTexts ==
    { <<>>,
      <<"alpha", "requires", "beta">>,
      <<"beta", "uses", "Alpha">>,
      <<"alpha", "xfill", "beta">>,
      <<"recall", "that", "beta", "requires", "alpha">> }

MinConfidenceChoices == {600, 1200}

\* seconds between the first mentions of concepts of consecutive groups
GroupSpacing == 150

\* Concept(...) with __post_init__ (the id is derived from video, group, name)
Concept(choice, video_id, group_id) ==
    [name       |-> choice.name,
     importance |-> Max(0, Min(1000, choice.importance)),
     confidence |-> Max(0, Min(1000, choice.confidence)),
     video_id   |-> video_id,
     group_id   |-> group_id,
     first_mention_time |-> group_id * GroupSpacing,
     id         |-> Concept_generate_uuid(video_id, group_id, choice.name)]

ExtractedConcepts(video_id, group_id, choices, group_text) ==
    [video_id   |-> video_id,
     group_id   |-> group_id,
     group_text |-> group_text,
     concepts   |-> [k \in 1..Len(choices) |-> Concept(choices[k], video_id, group_id)]]

ConceptLists == UNION { [1..n -> ConceptChoices] : n \in 0..MaxConcepts }

\* the groups of the video, in either order, or no group at all
ExtractionInputs(video_id) ==
    {<<>>} \cup
    UNION { { <<ExtractedConcepts(video_id, 0, c0, t0), ExtractedConcepts(video_id, 1, c1, t1)>>,
              <<ExtractedConcepts(video_id, 1, c1, t1), ExtractedConcepts(video_id, 0, c0, t0)>> } :
            c0 \in ConceptLists, c1 \in ConceptLists, t0 \in GroupTexts, t1 \in GroupTexts }

\* "Filter to this video only"
video_concepts == SelectSeq(all_extracted_concepts, LAMBDA ec : ec.video_id = VideoId)

RInit ==
    /\ detector_config \in [min_confidence : MinConfidenceChoices, openai_client : BOOLEAN]
    /\ all_extracted_concepts \in ExtractionInputs(VideoId)
    /\ all_relationships = <<>>
    /\ cursor = 1
    /\ rpc = "start"
    /\ GroupingIdle /\ UploadIdle /\ AssemblerIdle /\ PipelineIdle /\ FlowIdle /\ ConceptsIdle /\ StoresIdle /\ OverwriteIdle

\* no concepts for the video: ValueError
BeginExtraction ==
    /\ rpc = "start"
    /\ rpc' = IF video_concepts = <<>> THEN "error" ELSE "intra"
    /\ UNCHANGED <<detector_config, all_extracted_concepts, all_relationships, cursor>>
    /\ UNCHANGED <<gvars, ivars, avars, pvars, fvars, cvars, svars, ovars>>

\* Phase 1, one group
DetectIntraGroup ==
    /\ rpc = "intra"
    /\ cursor <= Len(video_concepts)
    /\ LET result == intra_detect_relationships(video_concepts[cursor], detector_config)
       IN  IF result.error
           THEN rpc' = "error" /\ UNCHANGED <<all_relationships, cursor>>
           ELSE /\ all_relationships' = all_relationships \o result.rels
                /\ cursor' = cursor + 1
                /\ rpc' = "intra"
    /\ UNCHANGED <<detector_config, all_extracted_concepts>>
    /\ UNCHANGED <<gvars, ivars, avars, pvars, fvars, cvars, svars, ovars>>

\* Phase 2 and the result
DetectInterGroups ==
    /\ rpc = "intra"
    /\ cursor > Len(video_concepts)
    /\ LET result == inter_detect_relationships(video_concepts, VideoId, detector_config)
       IN  IF result.error
           THEN rpc' = "error" /\ UNCHANGED all_relationships
           ELSE all_relationships' = all_relationships \o result.rels /\ rpc' = "done"
    /\ UNCHANGED <<detector_config, all_extracted_concepts, cursor>>
    /\ UNCHANGED <<gvars, ivars, avars, pvars, fvars, cvars, svars, ovars>>

RNext == BeginExtraction \/ DetectIntraGroup \/ DetectInterGroups

SpecRelationships == RInit /\ [][RNext]_vars

RelKey(r) == <<r.source_concept_id, r.target_concept_id, r.type>>

InterGroupTypes == {"builds_on", "elaborates", "references", "refines"}

\* C6: no two relationships of the result share (source_concept_id,
\* target_concept_id, type).
C6_AsStated ==
    rpc = "done" =>
        \A a, b \in 1..Len(all_relationships) :
            a # b => RelKey(all_relationships[a]) # RelKey(all_relationships[b])

\* C7: every emitted relationship has confidence >= the configured
\* min_confidence.
C7_AsStated ==
    \A k \in 1..Len(all_relationships) :
        all_relationships[k].confidence >= detector_config.min_confidence

\* C8: in every inter-group relationship the source concept is of the later
\* group and the target concept of the earlier one.
C8_AsStated ==
    \A k \in 1..Len(all_relationships) :
        all_relationships[k].type \in InterGroupTypes =>
            all_relationships[k].source_group_id > all_relationships[k].target_group_id

(***************************************************************************)
(* The pipeline on one video, run twice with skip_existing = False and     *)
(* overwrite = True: upload_segments, group_video,                         *)
(* ConceptService.process_groups, RelationshipService.extract_from_video.  *)
(* The external services (transcript and embeddings, Pass 1 and Pass 2     *)
(* language-model answers) answer the same in both runs; uuid4() does not. *)
(***************************************************************************)
\* values uuid4() can return
UuidPool == {"u1", "u2", "u3"}

\* the assembled transcript with the vectors the store computes on insert
PipelineSegment(vector) == [timing |-> <<1, 1>>, tokens |-> 1, vector |-> vector]

PipelineTranscripts ==
    { <<PipelineSegment(<<1, 0>>)>>,
      <<PipelineSegment(<<1, 0>>), PipelineSegment(<<1, 0>>)>>,
      <<PipelineSegment(<<1, 0>>), PipelineSegment(<<3, 4>>)>> }

\* text of the segments, in start order
SegmentTexts == << <<"alpha", "requires", "beta">>,
                   <<"recall", "that", "beta", "requires", "alpha">> >>

\* Pass 1 answer for a group: a list of candidate concepts
CandidateLists ==
    { <<>>,
      <<[name |-> "Alpha", importance |-> 800, confidence |-> 1000]>>,
      <<[name |-> "beta", importance |-> 800, confidence |-> 1000]>> }

\* entries of "consolidatedConcepts" in the Pass 2 answer (groupIds[0] kept)
ConsolidatedChoices ==
    { [name |-> "Alpha", importance |-> 800, confidence |-> 1000, group_id |-> 0],
      [name |-> "beta", importance |-> 800, confidence |-> 1000, group_id |-> 0],
      [name |-> "beta", importance |-> 800, confidence |-> 1000, group_id |-> 1] }

ConsolidationAnswers ==
    [ok : {FALSE}, consolidatedConcepts : {<<>>}] \cup
    [ok : {TRUE}, consolidatedConcepts :
                    UNION { [1..n -> ConsolidatedChoices] : n \in 0..2 }]

\* SegmentRepository.upload_segments: every segment is added under its uuid
upload_segments(objs, segs) ==
    LET added == StoreOf(segs)
    IN  {o \in objs : \A a \in added : a.uuid # o.uuid} \cup added

\* GroupingService.group_video
group_video(objs, video_id) ==
    LET fetched == fetch_by_video(objs, video_id)
        segs == _build_neighborhoods(objs, fetched)
        bnds == detect_boundaries(segs)
        grps == _form_groups(segs, bnds)
    IN  IF fetched = <<>> THEN <<>>
        ELSE merge_groups(AssignGroupIds(segs, grps), grps)

\* SegmentGroup.text
RECURSIVE GroupText(_)
GroupText(group_segments) ==
    IF group_segments = <<>> THEN <<>>
    ELSE SegmentTexts[Head(group_segments)] \o GroupText(Tail(group_segments))

\* Pass 1: ConceptExtractor.extract_from_group on every group
Candidates(grps, video_id, answers) ==
    [ g \in 1..Len(grps) |->
        ExtractedConcepts(video_id, grps[g].group_id, answers[grps[g].group_id],
                          GroupText(grps[g].segments)) ]

\* all candidates, flattened
RECURSIVE all_candidates(_)
all_candidates(candidate_concepts) ==
    IF candidate_concepts = <<>> THEN <<>>
    ELSE Head(candidate_concepts).concepts \o all_candidates(Tail(candidate_concepts))

\* ConceptConsolidator._build_consolidated_concepts: Concept(id=uuid4(), ...)
_build_consolidated_concepts(consolidated_data, video_id, ids) ==
    [ k \in 1..Len(consolidated_data) |->
        [Concept(consolidated_data[k], video_id, consolidated_data[k].group_id)
            EXCEPT !.id = ids[k]] ]

\* variant of final_concepts without the fallback: a failed consolidation
\* leaves no concepts
final_concepts_NoFallback(candidate_concepts, video_id, answer, ids) ==
    IF answer.ok /\ all_candidates(candidate_concepts) # <<>>
    THEN _build_consolidated_concepts(answer.consolidatedConcepts, video_id, ids)
    ELSE <<>>

\* Pass 2 with the fallback to all candidates when the consolidation fails
\* (no candidates: consolidate returns [] and the ratio log line fails)
final_concepts(candidate_concepts, video_id, answer, ids) ==
    IF answer.ok /\ all_candidates(candidate_concepts) # <<>>
    THEN _build_consolidated_concepts(answer.consolidatedConcepts, video_id, ids)
    ELSE all_candidates(candidate_concepts)

\* group ids of the final concepts, in order of first appearance
RECURSIVE GroupIdsOf(_, _)
GroupIdsOf(concepts, seen) ==
    IF concepts = <<>> THEN seen
    ELSE IF \E k \in 1..Len(seen) : seen[k] = Head(concepts).group_id
         THEN GroupIdsOf(Tail(concepts), seen)
         ELSE GroupIdsOf(Tail(concepts), Append(seen, Head(concepts).group_id))

\* group_map.get(group_id, "")
GroupMapText(grps, group_id) ==
    IF \E g \in 1..Len(grps) : grps[g].group_id = group_id
    THEN GroupText(grps[CHOOSE g \in 1..Len(grps) : grps[g].group_id = group_id].segments)
    ELSE <<>>

\* the ExtractedConcepts list process_groups returns
grouped_final(concepts, grps, video_id) ==
    LET ids == GroupIdsOf(concepts, <<>>)
    IN  [ k \in 1..Len(ids) |->
            [video_id   |-> video_id,
             group_id   |-> ids[k],
             group_text |-> GroupMapText(grps, ids[k]),
             concepts   |-> SelectSeq(concepts, LAMBDA c : c.group_id = ids[k])] ]

IdsOf(records) == {records[k].id : k \in 1..Len(records)}

\* all_relationships.extend(...) over the per-group results
RECURSIVE Extend(_)
Extend(results) ==
    IF results = <<>> THEN <<>> ELSE Head(results).rels \o Extend(Tail(results))

\* ExtractedRelationships(all_relationships) from the results of the phases;
\* a ValueError in a detector ends the extraction
ExtractedRelationships(intra, inter) ==
    [rels  |-> Extend(intra) \o inter.rels,
     error |-> inter.error \/ \E g \in 1..Len(intra) : intra[g].error]

\* RelationshipExtractor.extract_from_video as a whole: phase 1 on every
\* group, phase 2 on all groups
extract_from_video(concept_groups, video_id, cfg) ==
    ExtractedRelationships(
        [g \in 1..Len(concept_groups) |->
            intra_detect_relationships(concept_groups[g], cfg)],
        inter_detect_relationships(concept_groups, video_id, cfg))

\* upsert_relationships after delete_by_video: the edges of the video are
\* the extracted ones (none when the extraction raised)
upsert_relationships(result) == IF result.error THEN {} ELSE IdsOf(result.rels)


\* what is compared between the runs
Snapshot ==
    [segments      |-> {o.uuid : o \in weaviate_segments},
     groups        |-> pipeline_groups,
     concepts      |-> neo4j_concepts,
     relationships |-> neo4j_relationships]

PInit ==
    /\ responses \in [transcript    : PipelineTranscripts,
                      candidates    : [0..1 -> CandidateLists],
                      consolidation : ConsolidationAnswers]
    /\ weaviate_segments = {}
    /\ neo4j_concepts = {}
    /\ neo4j_relationships = {}
    /\ pipeline_groups = <<>>
    /\ processed_concepts = <<>>
    /\ first_run = <<>>
    /\ run = 1
    /\ ppc = "upload"
    /\ GroupingIdle /\ UploadIdle /\ AssemblerIdle /\ ExtractionIdle /\ FlowIdle /\ ConceptsIdle /\ StoresIdle /\ OverwriteIdle

\* store_transcript
StoreTranscript ==
    /\ ppc = "upload"
    /\ weaviate_segments' = upload_segments(weaviate_segments, responses.transcript)
    /\ ppc' = "group"
    /\ UNCHANGED <<responses, neo4j_concepts, neo4j_relationships, pipeline_groups,
                   processed_concepts, first_run, run>>
    /\ UNCHANGED <<gvars, ivars, avars, rvars, fvars, cvars, svars, ovars>>

GroupVideo ==
    /\ ppc = "group"
    /\ pipeline_groups' = group_video(weaviate_segments, VideoId)
    /\ ppc' = "concepts"
    /\ UNCHANGED <<responses, weaviate_segments, neo4j_concepts, neo4j_relationships,
                   processed_concepts, first_run, run>>
    /\ UNCHANGED <<gvars, ivars, avars, rvars, fvars, cvars, svars, ovars>>

\* process_groups(groups, skip_existing=False): Pass 1, Pass 2, upsert, result
ProcessGroups ==
    /\ ppc = "concepts"
    /\ \E ids \in [1..Len(responses.consolidation.consolidatedConcepts) -> UuidPool] :
         LET candidate_concepts == Candidates(pipeline_groups, VideoId,
                                              responses.candidates)
             final == final_concepts(candidate_concepts, VideoId,
                                     responses.consolidation, ids)
         IN  /\ neo4j_concepts' = neo4j_concepts \cup IdsOf(final)
             /\ processed_concepts' = grouped_final(final, pipeline_groups, VideoId)
    /\ ppc' = "relationships"
    /\ UNCHANGED <<responses, weaviate_segments, neo4j_relationships, pipeline_groups,
                   first_run, run>>
    /\ UNCHANGED <<gvars, ivars, avars, rvars, fvars, cvars, svars, ovars>>

\* extract_from_video(extracted_concepts, video_id, overwrite=True): delete,
\* extract, upsert; not called when there are no concepts
ExtractRelationships ==
    /\ ppc = "relationships"
    /\ IF processed_concepts = <<>>
       THEN UNCHANGED neo4j_relationships
       ELSE neo4j_relationships' = upsert_relationships(
                extract_from_video(processed_concepts, VideoId,
                    [min_confidence |-> 600, openai_client |-> FALSE]))
    /\ ppc' = "finished"
    /\ UNCHANGED <<responses, weaviate_segments, neo4j_concepts, pipeline_groups,
                   processed_concepts, first_run, run>>
    /\ UNCHANGED <<gvars, ivars, avars, rvars, fvars, cvars, svars, ovars>>

\* the pipeline is started again on the same video
RunAgain ==
    /\ ppc = "finished"
    /\ run = 1
    /\ first_run' = Snapshot
    /\ run' = 2
    /\ ppc' = "upload"
    /\ pipeline_groups' = <<>>
    /\ processed_concepts' = <<>>
    /\ UNCHANGED <<responses, weaviate_segments, neo4j_concepts, neo4j_relationships>>
    /\ UNCHANGED <<gvars, ivars, avars, rvars, fvars, cvars, svars, ovars>>

PNext == StoreTranscript \/ GroupVideo \/ ProcessGroups \/ ExtractRelationships \/ RunAgain

SpecPipeline == PInit /\ [][PNext]_vars

RanTwice == run = 2 /\ ppc = "finished"

\* C5: after the second run the stores hold the same segment ids, the same
\* groups, the same concept ids and the same relationship ids as after the
\* first run.
C5_AsStated == RanTwice => Snapshot = first_run

(***************************************************************************)
(* Boundary detection at the two ends of adjacent_threshold: the grouping  *)
(* steps run with the threshold set to 0.0 or to 1.0.                      *)
(***************************************************************************)
ExtremeThresholds == {0, 1000}

TInit ==
    /\ \E n \in 0..MaxSegs : \E inp \in [1..n -> SegChoice] : store = StoreOf(inp)
    /\ segments = <<>>
    /\ boundaries = <<>>
    /\ formed = <<>>
    /\ groups = <<>>
    /\ gpc = "start"
    /\ \E t \in ExtremeThresholds :
          config = [GroupingConfig EXCEPT !.adjacent_threshold = t]
    /\ UploadIdle /\ AssemblerIdle /\ ExtractionIdle /\ PipelineIdle /\ FlowIdle /\ ConceptsIdle /\ StoresIdle /\ OverwriteIdle

SpecThresholds == TInit /\ [][GNext]_vars

Detected == boundaries # <<>>

\* C11: with adjacent_threshold = 0 a boundary other than index 0 sits exactly
\* where the accumulated word count reached max_group_words; with
\* adjacent_threshold = 1 the boundaries are the indices of all segments.
C11_ExtremeThresholds ==
    Detected =>
      /\ config.adjacent_threshold = 0 =>
           \A i \in 1..(Len(segments) - 1) :
              BoundaryAfter(i) <=> RunningWords(i) >= config.max_group_words
      /\ config.adjacent_threshold = 1000 =>
           boundaries = [i \in 1..Len(segments) |-> i - 1]

\* three segments with the same embedding are split one by one at threshold 1
C11_Witness ==
    /\ Detected
    /\ config.adjacent_threshold = 1000
    /\ Len(segments) >= 3
    /\ \A i \in 1..Len(segments) : segments[i].embedding = <<1, 0>>
    /\ Len(boundaries) = Len(segments)

(***************************************************************************)
(* Topic shift: a video of two halves of HalfLen segments each.  The       *)
(* embeddings are identical inside a half and have cosine 0.32 across the  *)
(* halves; consecutive segments start one tick apart.  Each segment's      *)
(* neighbourhood holds the adjacent segments that pass neighbor_threshold  *)
(* (the store returns k_neighbors + 1 rows out of HalfLen equally near     *)
(* ones).  Boundary detection and merging run on that list.                *)
(***************************************************************************)
HalfLen == 25
ShiftWordChoices == {1, 2, 3}
ShiftLimits == {1, 24, 25, 48, 49, 72, 73, 700}

ShiftStore(w1, w2) ==
    { [ uuid    |-> _segment_uuid(VideoId, (i - 1) * 15, 0),
        videoId |-> VideoId,
        start_s |-> i - 1,
        end_s   |-> i,
        tokens  |-> IF i <= HalfLen THEN w1 ELSE w2,
        vector  |-> IF i <= HalfLen THEN <<1, 0>> ELSE <<1, 3>> ] : i \in 1..(2 * HalfLen) }

AdjacentNeighbors(segs, i) ==
    { [ segment_id |-> segs[j].id,
        similarity |-> cosine_similarity(segs[i].embedding, segs[j].embedding),
        start_time |-> segs[j].start_time,
        end_time   |-> segs[j].end_time ] :
      j \in { k \in {i - 1, i + 1} \cap (1..Len(segs)) :
                cosine_similarity(segs[i].embedding, segs[k].embedding)
                   >= GroupingConfig.neighbor_threshold } }

ShiftSegments(objs) ==
    LET segs == fetch_by_video(objs, VideoId)
    IN  [ i \in 1..Len(segs) |-> [segs[i] EXCEPT !.neighbors = AdjacentNeighbors(segs, i)] ]

SInit ==
    /\ \E w1 \in ShiftWordChoices, w2 \in ShiftWordChoices :
          /\ store = ShiftStore(w1, w2)
          /\ segments = ShiftSegments(store)
    /\ boundaries = <<>>
    /\ formed = <<>>
    /\ groups = <<>>
    /\ gpc = "neighborhoods"
    /\ \E limit \in ShiftLimits :
          config = [GroupingConfig EXCEPT !.max_group_words = limit]
    /\ UploadIdle /\ AssemblerIdle /\ ExtractionIdle /\ PipelineIdle /\ FlowIdle /\ ConceptsIdle /\ StoresIdle /\ OverwriteIdle

SNext == FormGroups \/ MergeGroups

SpecTopicShift == SInit /\ [][SNext]_vars

\* the premise of the scenario, on the list boundary detection ran on
TopicShift ==
    /\ Len(segments) = 2 * HalfLen
    /\ \A i \in 1..(Len(segments) - 1) : Cohesive(i) <=> i # HalfLen

WordsOf(from, to) == SumSeq([k \in 1..(to - from + 1) |-> segments[from + k - 1].word_count])

\* C12 as stated: one boundary besides the initial one, between the halves,
\* whatever max_group_words is.
C12_AsStated == (Detected /\ TopicShift) => boundaries = <<0, HalfLen>>

\* C12: in the topic-shift scenario there is always a boundary between the
\* halves, and it is the only one besides the initial one exactly when
\* max_group_words exceeds the words of the first HalfLen - 1 segments of each
\* half.
C12_TopicShift ==
    (Detected /\ TopicShift) =>
       /\ BoundaryAfter(HalfLen)
       /\ boundaries = <<0, HalfLen>> <=>
             /\ config.max_group_words > WordsOf(1, HalfLen - 1)
             /\ config.max_group_words > WordsOf(HalfLen + 1, 2 * HalfLen - 1)

\* two halves of one-word segments under a limit of 25 words: one boundary
C12_Witness ==
    /\ Detected /\ TopicShift
    /\ config.max_group_words = 25
    /\ boundaries = <<0, HalfLen>>

(***************************************************************************)
(* Videos whose segments carry no embedding (SpecGrouping)                 *)
(***************************************************************************)
NoSegmentEmbedded == \A i \in 1..Len(segments) : segments[i].embedding = NoEmbedding

\* C13: when the video has segments and none has an embedding, group_video
\* returns exactly one group and it contains every segment.
C13_AsStated ==
    (Grouped /\ NoSegmentEmbedded) =>
       /\ Len(groups) = 1
       /\ Members(groups[1]) = 1..Len(segments)

(***************************************************************************)
(* YouTubeGraphPipeline.process_video (scripts/pipeline.py): the stages    *)
(* after segmentation, their feature flags and what happens when a stage   *)
(* raises.  The workers are abstracted to their outcome: the number of     *)
(* items they return, or an exception.                                     *)
(***************************************************************************)
MaxFlowGroups == 2
Outcomes == {"ok", "raise"}

\* self.concept_uploader is created only when enable_concepts is set
ConceptUploaderReady(concepts_enabled) == concepts_enabled

\* variant of _load_concepts_for_relationships that finds an uploader whatever
\* the flags are
_load_concepts_for_relationships_AnyUploader(uploader_ready, records) ==
    [raised |-> FALSE, payload |-> records]

\* _load_concepts_for_relationships: RuntimeError without an uploader, else the
\* stored records of the video ([] when there are none)
_load_concepts_for_relationships(uploader_ready, records) ==
    IF ~uploader_ready THEN [raised |-> TRUE, payload |-> 0]
    ELSE [raised |-> FALSE, payload |-> records]

\* the except clause around steps 5-7
GroupingFailed(res) == ("groups" :> <<>>) @@ ("group_count" :> 0) @@ res

StoredRecords == IF "concepts" \in persisted THEN 1 ELSE 0

FInit ==
    /\ enable_grouping \in BOOLEAN
    /\ enable_concepts \in BOOLEAN
    /\ enable_relationships \in BOOLEAN
    /\ result_dict = <<>>
    /\ concept_payload = 0
    /\ persisted \in {{}, {"concepts"}}
    /\ stages_run = {}
    /\ raised_in = "none"
    /\ fpc = "upload"
    /\ GroupingIdle /\ UploadIdle /\ AssemblerIdle /\ ExtractionIdle /\ PipelineIdle /\ ConceptsIdle /\ StoresIdle /\ OverwriteIdle

\* Step 4: upload_segments is outside any try; an exception leaves process_video
UploadStep ==
    /\ fpc = "upload"
    /\ \E outcome \in Outcomes, segment_count \in 1..2 :
          IF outcome = "raise"
          THEN /\ raised_in' = "upload"
               /\ fpc' = "raised"
               /\ UNCHANGED <<result_dict, persisted, stages_run>>
          ELSE /\ persisted' = persisted \cup {"segments"}
               /\ stages_run' = stages_run \cup {"upload"}
               /\ result_dict' = ("segment_count" :> segment_count) @@ ("video_id" :> VideoId)
               /\ fpc' = IF enable_grouping THEN "grouping" ELSE "returned"
               /\ UNCHANGED raised_in
    /\ UNCHANGED <<enable_grouping, enable_concepts, enable_relationships, concept_payload>>
    /\ UNCHANGED <<gvars, ivars, avars, rvars, pvars, cvars, svars, ovars>>

\* Step 5: group_video
GroupingStep ==
    /\ fpc = "grouping"
    /\ stages_run' = stages_run \cup {"grouping"}
    /\ \E outcome \in Outcomes, n \in 0..MaxFlowGroups :
          IF outcome = "raise"
          THEN /\ raised_in' = "grouping"
               /\ result_dict' = GroupingFailed(result_dict)
               /\ fpc' = "returned"
          ELSE /\ result_dict' = ("groups" :> [g \in 1..n |-> g - 1]) @@ ("group_count" :> n) @@ result_dict
               /\ fpc' = "concepts"
               /\ UNCHANGED raised_in
    /\ UNCHANGED <<enable_grouping, enable_concepts, enable_relationships,
                   concept_payload, persisted>>
    /\ UNCHANGED <<gvars, ivars, avars, rvars, pvars, cvars, svars, ovars>>

\* Step 6: _extract_and_upload_concepts when enabled (concepts are uploaded
\* group by group, so an exception can come after some were stored), else
\* _load_concepts_for_relationships
ConceptStep ==
    /\ fpc = "concepts"
    /\ IF enable_concepts
       THEN /\ stages_run' = stages_run \cup {"concepts"}
            /\ \E outcome \in Outcomes, k \in 0..result_dict["group_count"] :
                  /\ persisted' = IF k > 0 THEN persisted \cup {"concepts"} ELSE persisted
                  /\ IF outcome = "raise"
                     THEN /\ raised_in' = "concepts"
                          /\ result_dict' = GroupingFailed(result_dict)
                          /\ fpc' = "returned"
                          /\ UNCHANGED concept_payload
                     ELSE /\ result_dict' = ("concept_stats" :> [groups_processed |-> k]) @@ result_dict
                          /\ concept_payload' = k
                          /\ fpc' = "relationships"
                          /\ UNCHANGED raised_in
       ELSE /\ IF _load_concepts_for_relationships(ConceptUploaderReady(enable_concepts), StoredRecords).raised
               THEN /\ raised_in' = "concepts"
                    /\ result_dict' = GroupingFailed(result_dict)
                    /\ fpc' = "returned"
                    /\ UNCHANGED concept_payload
               ELSE /\ concept_payload' =
                          _load_concepts_for_relationships(ConceptUploaderReady(enable_concepts), StoredRecords).payload
                    /\ fpc' = "relationships"
                    /\ UNCHANGED <<raised_in, result_dict>>
            /\ UNCHANGED <<persisted, stages_run>>
    /\ UNCHANGED <<enable_grouping, enable_concepts, enable_relationships>>
    /\ UNCHANGED <<gvars, ivars, avars, rvars, pvars, cvars, svars, ovars>>

\* Step 7: _extract_and_upload_relationships, skipped without concepts
RelationshipStep ==
    /\ fpc = "relationships"
    /\ IF enable_relationships /\ concept_payload > 0
       THEN /\ stages_run' = stages_run \cup {"relationships"}
            /\ \E outcome \in Outcomes, uploaded \in 0..1 :
                  IF outcome = "raise"
                  THEN /\ raised_in' = "relationships"
                       /\ result_dict' = GroupingFailed(result_dict)
                       /\ UNCHANGED persisted
                  ELSE /\ result_dict' = ("relationship_stats" :> [uploaded |-> uploaded]) @@ result_dict
                       /\ persisted' = IF uploaded > 0 THEN persisted \cup {"relationships"}
                                       ELSE persisted
                       /\ UNCHANGED raised_in
       ELSE UNCHANGED <<stages_run, raised_in, result_dict, persisted>>
    /\ fpc' = "returned"
    /\ UNCHANGED <<enable_grouping, enable_concepts, enable_relationships, concept_payload>>
    /\ UNCHANGED <<gvars, ivars, avars, rvars, pvars, cvars, svars, ovars>>

FNext == UploadStep \/ GroupingStep \/ ConceptStep \/ RelationshipStep

SpecFlow == FInit /\ [][FNext]_vars

Left == fpc \in {"returned", "raised"}

\* C14: when a stage after segmentation fails, process_video returns a result
\* with success = false and the error, and what earlier stages persisted stays.
C14_AsStated ==
    (Left /\ raised_in # "none") =>
       /\ fpc = "returned"
       /\ "success" \in DOMAIN result_dict /\ result_dict["success"] = FALSE
       /\ "error" \in DOMAIN result_dict
       /\ raised_in # "upload" => "segments" \in persisted

\* C15: a stage whose flag is off does not run, and neither does any later
\* stage: grouping runs only with enable_grouping, concept extraction only
\* with enable_grouping and enable_concepts, relationship extraction only with
\* all three flags.
C15_DisabledShortCircuits ==
    /\ "grouping" \in stages_run => enable_grouping
    /\ "concepts" \in stages_run => enable_grouping /\ enable_concepts
    /\ "relationships" \in stages_run =>
          enable_grouping /\ enable_concepts /\ enable_relationships

\* concepts are stored for the video, concept extraction is off, relationship
\* extraction is on: the call has returned and no relationship step ran
C15_Witness ==
    /\ fpc = "returned"
    /\ enable_grouping /\ ~enable_concepts /\ enable_relationships
    /\ "concepts" \in persisted
    /\ "grouping" \in stages_run
    /\ "relationships" \notin stages_run

(***************************************************************************)
(* ConceptService.process_groups on its own: the Pass 1 loop with groups   *)
(* whose answer cannot be parsed, Pass 2 with its fallback, storage and    *)
(* the returned list.  The graph store starts without concepts.            *)
(***************************************************************************)
MaxServiceGroups == 2

\* up to MaxServiceGroups groups of one segment each, numbered from 0
ServiceGroupLists ==
    { [k \in 1..n |-> [group_id |-> k - 1,
                       segments |-> <<((k - 1) % Len(SegmentTexts)) + 1>>]] :
      n \in 0..MaxServiceGroups }

\* Pass 1 answer of the LLM for one group: unparsable, or a list of candidates
Pass1Answers ==
    {[ok |-> FALSE, concepts |-> <<>>]} \cup [ok : {TRUE}, concepts : CandidateLists]

\* ConceptExtractor.extract_from_group: ExtractionError when _parse_response
\* fails
extract_from_group(video_id, group, answer) ==
    IF ~answer.ok THEN [raised |-> TRUE, extracted |-> <<>>]
    ELSE [raised    |-> FALSE,
          extracted |-> ExtractedConcepts(video_id, group.group_id, answer.concepts,
                                          GroupText(group.segments))]

\* variant of the Pass 1 loop that stops at the first group that fails
RECURSIVE Pass1Loop_StopAtFailure(_, _, _)
Pass1Loop_StopAtFailure(grps, answers, candidate_concepts) ==
    IF grps = <<>> THEN candidate_concepts
    ELSE IF extract_from_group(VideoId, Head(grps), answers[Head(grps).group_id]).raised
         THEN candidate_concepts
         ELSE Pass1Loop_StopAtFailure(Tail(grps), answers,
                  Append(candidate_concepts,
                         extract_from_group(VideoId, Head(grps),
                                            answers[Head(grps).group_id]).extracted))

\* the Pass 1 loop of process_groups: "except Exception: continue"
RECURSIVE Pass1Loop(_, _, _)
Pass1Loop(grps, answers, candidate_concepts) ==
    IF grps = <<>> THEN candidate_concepts
    ELSE IF extract_from_group(VideoId, Head(grps), answers[Head(grps).group_id]).raised
         THEN Pass1Loop(Tail(grps), answers, candidate_concepts)
         ELSE Pass1Loop(Tail(grps), answers,
                  Append(candidate_concepts,
                         extract_from_group(VideoId, Head(grps),
                                            answers[Head(grps).group_id]).extracted))

\* the LLM calls and the sleeps of the Pass 1 loop: one call per group, and
\* "if self.delay_seconds > 0: time.sleep(...)" at the end of the try block,
\* which a failed call does not reach
RECURSIVE Pass1Calls(_, _, _)
Pass1Calls(grps, answers, delay) ==
    IF grps = <<>> THEN <<>>
    ELSE IF extract_from_group(VideoId, Head(grps), answers[Head(grps).group_id]).raised
         THEN <<"pass1">> \o Pass1Calls(Tail(grps), answers, delay)
         ELSE <<"pass1">> \o (IF delay > 0 THEN <<"sleep">> ELSE <<>>)
                \o Pass1Calls(Tail(grps), answers, delay)

\* consolidate calls the LLM unless there is no candidate
ConsolidateCalls(candidate_concepts) ==
    IF all_candidates(candidate_concepts) = <<>> THEN <<>> ELSE <<"pass2">>

\* delay_seconds: off, or the default 0.5 s
DelayChoices == {0, 5}

\* Neo4jGraph.upsert_concepts: MERGE (c:Concept {id}) SET every property
upsert_concepts(nodes, concepts) ==
    LET written == {concepts[k] : k \in 1..Len(concepts)}
    IN  {c \in nodes : \A w \in written : w.id # c.id} \cup
        {w \in written : \A k \in 1..Len(concepts) :
            concepts[k].id = w.id =>
               concepts[CHOOSE j \in 1..Len(concepts) :
                          /\ concepts[j].id = w.id
                          /\ \A i \in (j + 1)..Len(concepts) : concepts[i].id # w.id] = w}

\* uuid4() gives every consolidated concept an id of its own
FreshIds(n) == {ids \in [1..n -> UuidPool] : \A i, j \in 1..n : ids[i] = ids[j] => i = j}

CInit ==
    /\ llm_answers \in [pass1 : [0..(MaxServiceGroups - 1) -> Pass1Answers],
                        consolidation : ConsolidationAnswers]
    /\ service_groups \in ServiceGroupLists
    /\ pass1_candidates = <<>>
    /\ consolidate_calls = 0
    /\ graph_concepts = {}
    /\ returned_concepts = <<>>
    /\ delay_seconds \in DelayChoices
    /\ llm_log = <<>>
    /\ cpc = "pass1"
    /\ GroupingIdle /\ UploadIdle /\ AssemblerIdle /\ ExtractionIdle /\ PipelineIdle /\ FlowIdle /\ StoresIdle /\ OverwriteIdle

\* "if not groups: return []", else the Pass 1 loop
Pass1 ==
    /\ cpc = "pass1"
    /\ pass1_candidates' = Pass1Loop(service_groups, llm_answers.pass1, <<>>)
    /\ llm_log' = Pass1Calls(service_groups, llm_answers.pass1, delay_seconds)
    /\ cpc' = IF service_groups = <<>> THEN "returned" ELSE "pass2"
    /\ UNCHANGED <<llm_answers, service_groups, consolidate_calls, graph_concepts,
                   returned_concepts, delay_seconds>>
    /\ UNCHANGED <<gvars, ivars, avars, rvars, pvars, fvars, svars, ovars>>

\* storage and the returned list
StoreFinal(final) ==
    /\ graph_concepts' = upsert_concepts(graph_concepts, final)
    /\ returned_concepts' = grouped_final(final, service_groups, VideoId)

\* Pass 2 (consolidate, or all candidates when it fails), storage, return
Pass2 ==
    /\ cpc = "pass2"
    /\ consolidate_calls' = consolidate_calls + 1
    /\ \E ids \in FreshIds(Len(llm_answers.consolidation.consolidatedConcepts)) :
          StoreFinal(final_concepts(pass1_candidates, VideoId,
                                    llm_answers.consolidation, ids))
    /\ llm_log' = llm_log \o ConsolidateCalls(pass1_candidates)
    /\ cpc' = "returned"
    /\ UNCHANGED <<llm_answers, service_groups, pass1_candidates, delay_seconds>>
    /\ UNCHANGED <<gvars, ivars, avars, rvars, pvars, fvars, svars, ovars>>

CNext == Pass1 \/ Pass2

SpecConcepts == CInit /\ [][CNext]_vars

AnswerOf(k) == llm_answers.pass1[service_groups[k].group_id]
CandidatesOfGroup(g) == SelectSeq(pass1_candidates, LAMBDA ec : ec.group_id = g)
ReturnedConcepts ==
    UNION { {returned_concepts[k].concepts[j] : j \in 1..Len(returned_concepts[k].concepts)} :
            k \in 1..Len(returned_concepts) }
Pass1Union ==
    UNION { {pass1_candidates[k].concepts[j] : j \in 1..Len(pass1_candidates[k].concepts)} :
            k \in 1..Len(pass1_candidates) }

\* C16: a group whose Pass 1 answer cannot be parsed contributes no
\* candidates, every other group contributes the candidates of its answer,
\* consolidation is invoked once on them, and process_groups returns.
C16_ParseFailureSkipsGroup ==
    /\ cpc # "raised"
    /\ cpc \in {"pass2", "returned"} =>
          \A k \in 1..Len(service_groups) :
             IF AnswerOf(k).ok
             THEN /\ Len(CandidatesOfGroup(service_groups[k].group_id)) = 1
                  /\ Len(CandidatesOfGroup(service_groups[k].group_id)[1].concepts)
                        = Len(AnswerOf(k).concepts)
             ELSE CandidatesOfGroup(service_groups[k].group_id) = <<>>
    /\ (cpc = "returned" /\ service_groups # <<>>) => consolidate_calls = 1

\* the first group's answer is unparsable, the second group's candidate is
\* stored and returned
C16_Witness ==
    /\ cpc = "returned"
    /\ Len(service_groups) = 2
    /\ ~AnswerOf(1).ok
    /\ AnswerOf(2).ok /\ AnswerOf(2).concepts # <<>>
    /\ ~llm_answers.consolidation.ok
    /\ Cardinality(ReturnedConcepts) = 1

\* C17: when the consolidation fails the stored and the returned concepts are
\* the union of the Pass 1 candidates; when it succeeds they are the
\* consolidated concepts, one per entry of the answer (none when there was no
\* candidate to consolidate).
C17_FallbackOrConsolidated ==
    (cpc = "returned" /\ service_groups # <<>>) =>
       /\ cpc # "raised"
       /\ ~llm_answers.consolidation.ok =>
             /\ graph_concepts = Pass1Union
             /\ ReturnedConcepts = Pass1Union
       /\ (llm_answers.consolidation.ok /\ Pass1Union # {}) =>
             /\ ReturnedConcepts = graph_concepts
             /\ Cardinality(graph_concepts) = Len(llm_answers.consolidation.consolidatedConcepts)
             /\ {<<c.name, c.group_id>> : c \in graph_concepts} =
                   {<<llm_answers.consolidation.consolidatedConcepts[k].name,
                      llm_answers.consolidation.consolidatedConcepts[k].group_id>> :
                      k \in 1..Len(llm_answers.consolidation.consolidatedConcepts)}
       /\ (llm_answers.consolidation.ok /\ Pass1Union = {}) => graph_concepts = {}

\* the consolidation failed with two candidates from two groups
C17_Witness ==
    /\ cpc = "returned"
    /\ ~llm_answers.consolidation.ok
    /\ Cardinality(Pass1Union) = 2
    /\ graph_concepts = Pass1Union

(***************************************************************************)
(* Relationship extraction on short group texts: a text of fewer than 10   *)
(* characters gives evidence that Relationship.__post_init__ rejects.      *)
(***************************************************************************)
ShortConceptLists ==
    { <<>>,
      <<[name |-> "ai", importance |-> 800, confidence |-> 1000],
        [name |-> "ml", importance |-> 800, confidence |-> 1000]>>,
      <<[name |-> "Alpha", importance |-> 800, confidence |-> 1000],
        [name |-> "beta", importance |-> 800, confidence |-> 1000]>> }

\* "ai ml" (5 characters), "ai uses ml" (10), "beta uses Alpha" (15)
ShortTexts == { <<"ai", "ml">>, <<"ai", "uses", "ml">>, <<"beta", "uses", "Alpha">> }

ShortEvidenceInputs(video_id) ==
    { <<ExtractedConcepts(video_id, 0, c0, t0), ExtractedConcepts(video_id, 1, c1, t1)>> :
      c0 \in ShortConceptLists, c1 \in ShortConceptLists,
      t0 \in ShortTexts, t1 \in ShortTexts }

VInit ==
    /\ detector_config \in [min_confidence : MinConfidenceChoices, openai_client : BOOLEAN]
    /\ all_extracted_concepts \in ShortEvidenceInputs(VideoId)
    /\ all_relationships = <<>>
    /\ cursor = 1
    /\ rpc = "start"
    /\ GroupingIdle /\ UploadIdle /\ AssemblerIdle /\ PipelineIdle /\ FlowIdle /\ ConceptsIdle /\ StoresIdle /\ OverwriteIdle

SpecValidation == VInit /\ [][RNext]_vars

\* C18: a candidate relationship with evidence shorter than 10 characters is
\* dropped and the extraction goes on: extract_from_video ends with an error
\* only when the video has no concepts at all.
C18_AsStated == rpc = "error" => video_concepts = <<>>

(***************************************************************************)
(* The store upserts: SegmentRepository.upload_segments,                   *)
(* Neo4jGraph.upsert_concepts and Neo4jGraph.upsert_relationships, each    *)
(* applied twice in a row with the same input on a store that may already  *)
(* hold data.  Edges are kept as a list: the graph store allows parallel   *)
(* edges with equal properties.                                            *)
(***************************************************************************)
MaxRows == 2
ConceptIds == {"c1", "c2"}
ConceptRows == [id : ConceptIds, name : {"alpha", "beta"}]

RowLists(rows) == UNION { [1..n -> rows] : n \in 0..MaxRows }

\* node sets with one node per id
ConceptStores == {nodes \in SUBSET ConceptRows : \A a, b \in nodes : a.id = b.id => a = b}

\* _relationship_to_dict of a Relationship between two concept ids
RelationshipRows ==
    { [id              |-> Relationship_generate_uuid(s, t, "uses"),
       sourceConceptId |-> s,
       targetConceptId |-> t,
       relType         |-> "USES",
       confidence      |-> c] :
      s \in ConceptIds, t \in ConceptIds, c \in {600, 900} }

Edge(rel) ==
    [id |-> rel.id, source |-> rel.sourceConceptId, target |-> rel.targetConceptId,
     type |-> rel.relType, confidence |-> rel.confidence]

\* edge lists a store can hold before the upsert: none, or one edge between
\* nodes that exist
EdgeStores(nodes) ==
    {<<>>} \cup
    { <<Edge(rel)>> : rel \in {r \in RelationshipRows :
                                  /\ r.confidence = 600
                                  /\ \E n \in nodes : n.id = r.sourceConceptId
                                  /\ \E n \in nodes : n.id = r.targetConceptId} }

\* variant of MergeEdge that creates an edge for every row (CREATE for MERGE)
MergeEdge_Create(edges, rel) == Append(edges, Edge(rel))

\* MERGE (source)-[r:GRAPH_RELATION {id: rel.id}]->(target)
\* ON CREATE SET r.type = rel.relType  SET r.confidence = rel.confidence, ...
MergeEdge(edges, rel) ==
    IF \E k \in 1..Len(edges) : /\ edges[k].id = rel.id
                                /\ edges[k].source = rel.sourceConceptId
                                /\ edges[k].target = rel.targetConceptId
    THEN [k \in 1..Len(edges) |->
            IF /\ edges[k].id = rel.id
               /\ edges[k].source = rel.sourceConceptId
               /\ edges[k].target = rel.targetConceptId
            THEN [edges[k] EXCEPT !.confidence = rel.confidence]
            ELSE edges[k]]
    ELSE Append(edges, Edge(rel))

\* MATCH (source:Concept {id: rel.sourceConceptId}) MATCH (target:Concept {...})
EndpointsExist(nodes, rel) ==
    /\ \E n \in nodes : n.id = rel.sourceConceptId
    /\ \E n \in nodes : n.id = rel.targetConceptId

\* UNWIND $batch AS rel ... : the rows of the batch in order
RECURSIVE WriteBatch(_, _, _)
WriteBatch(nodes, edges, batch_rows) ==
    IF batch_rows = <<>> THEN edges
    ELSE WriteBatch(nodes,
                    IF EndpointsExist(nodes, Head(batch_rows))
                    THEN MergeEdge(edges, Head(batch_rows))
                    ELSE edges,
                    Tail(batch_rows))

\* Neo4jGraph.upsert_relationships: the lists of the model fit one batch;
\* uploaded adds up count(r), failed and skipped stay as initialised
Neo4jGraph_upsert_relationships(nodes, edges, rel_dicts) ==
    IF rel_dicts = <<>>
    THEN [edges |-> edges, uploaded |-> 0, failed |-> 0, skipped |-> 0]
    ELSE [edges    |-> WriteBatch(nodes, edges, rel_dicts),
          uploaded |-> Len(SelectSeq(rel_dicts, LAMBDA rel : EndpointsExist(nodes, rel))),
          failed   |-> 0,
          skipped  |-> 0]

Stores == [segments |-> segment_objects, concepts |-> concept_nodes, edges |-> relation_edges]

NoStats == [uploaded |-> 0, failed |-> 0, skipped |-> 0]

SInitSegments ==
    /\ store_op = "segments"
    /\ upsert_input \in PipelineTranscripts
    /\ segment_objects \in {{}} \cup {StoreOf(t) : t \in PipelineTranscripts}
    /\ concept_nodes = {}
    /\ relation_edges = <<>>

SInitConcepts ==
    /\ store_op = "concepts"
    /\ upsert_input \in RowLists(ConceptRows)
    /\ segment_objects = {}
    /\ concept_nodes \in ConceptStores
    /\ relation_edges = <<>>

SInitRelationships ==
    /\ store_op = "relationships"
    /\ upsert_input \in RowLists({r \in RelationshipRows : r.sourceConceptId # r.targetConceptId})
    /\ segment_objects = {}
    /\ concept_nodes \in ConceptStores
    /\ relation_edges \in EdgeStores(concept_nodes)

StInit ==
    /\ (SInitSegments \/ SInitConcepts \/ SInitRelationships)
    /\ after_first = <<>>
    /\ applications = 0
    /\ upsert_stats = NoStats
    /\ GroupingIdle /\ UploadIdle /\ AssemblerIdle /\ ExtractionIdle /\ PipelineIdle /\ FlowIdle /\ ConceptsIdle /\ OverwriteIdle

Applied ==
    /\ applications < 2
    /\ applications' = applications + 1
    /\ after_first' = IF applications = 0 THEN Stores' ELSE after_first
    /\ UNCHANGED <<store_op, upsert_input>>
    /\ UNCHANGED <<gvars, ivars, avars, rvars, pvars, fvars, cvars, ovars>>

UpsertSegments ==
    /\ store_op = "segments"
    /\ segment_objects' = upload_segments(segment_objects, upsert_input)
    /\ UNCHANGED <<concept_nodes, relation_edges, upsert_stats>>
    /\ Applied

UpsertConcepts ==
    /\ store_op = "concepts"
    /\ concept_nodes' = upsert_concepts(concept_nodes, upsert_input)
    /\ UNCHANGED <<segment_objects, relation_edges, upsert_stats>>
    /\ Applied

WriteRelationships(written) ==
    /\ relation_edges' = written.edges
    /\ upsert_stats' = [uploaded |-> written.uploaded, failed |-> written.failed,
                        skipped |-> written.skipped]

UpsertRelationships ==
    /\ store_op = "relationships"
    /\ WriteRelationships(Neo4jGraph_upsert_relationships(concept_nodes, relation_edges,
                                                          upsert_input))
    /\ UNCHANGED <<segment_objects, concept_nodes>>
    /\ Applied

StNext == UpsertSegments \/ UpsertConcepts \/ UpsertRelationships

SpecStores == StInit /\ [][StNext]_vars

MissingEndpointRows ==
    {k \in 1..Len(upsert_input) : ~EndpointsExist(concept_nodes, upsert_input[k])}

\* C19: after upsert_relationships every edge joins two existing concepts,
\* the returned skipped count is the number of rows with a missing endpoint,
\* and uploaded + skipped + failed is the number of rows submitted.
C19_AsStated ==
    (store_op = "relationships" /\ applications >= 1) =>
       /\ \A k \in 1..Len(relation_edges) :
             /\ \E n \in concept_nodes : n.id = relation_edges[k].source
             /\ \E n \in concept_nodes : n.id = relation_edges[k].target
       /\ upsert_stats.skipped = Cardinality(MissingEndpointRows)
       /\ upsert_stats.uploaded + upsert_stats.skipped + upsert_stats.failed
             = Len(upsert_input)

\* C20: the second application of an upsert with the same input leaves the
\* stores as the first application left them (same objects, same ids, same
\* properties, same number of nodes and edges).
C20_UpsertIdempotent == applications = 2 => Stores = after_first

\* two rows gave two edges, one of them with confidence 0.9, and the upsert
\* ran twice
C20_Witness ==
    /\ applications = 2
    /\ store_op = "relationships"
    /\ Len(upsert_input) = 2
    /\ Len(relation_edges) = 2
    /\ \E k \in 1..2 : relation_edges[k].confidence = 900

(***************************************************************************)
(* Boundary detection as a walk with a running word count                  *)
(* (BoundaryDetector.detect_boundaries, SegmentGrouper.detect_boundaries)  *)
(***************************************************************************)
\* the boundaries are strictly increasing indices of segments
BoundariesAscend ==
    \A k \in 1..(Len(boundaries) - 1) :
        boundaries[k] < boundaries[k + 1] /\ boundaries[k + 1] < Len(segments)

AllCohesive == \A i \in 1..(Len(segments) - 1) : Cohesive(i)

\* C21: index 0 is always a boundary; a boundary sits between s_i and s_i+1
\* exactly when their cohesion is below adjacent_threshold or the running
\* word count (the words of the segments since the last boundary, s_i
\* included) is >= max_group_words; when every adjacent pair is cohesive a
\* boundary sits exactly where that running count has reached
\* max_group_words.
C21_BoundaryWalk ==
    Detected =>
        /\ boundaries[1] = 0
        /\ BoundariesAscend
        /\ \A i \in 1..(Len(segments) - 1) :
              BoundaryAfter(i) <=>
                  \/ _compute_cohesion(segments[i], segments[i + 1])
                        < config.adjacent_threshold * 1000
                  \/ RunningWords(i) >= config.max_group_words
        /\ AllCohesive =>
              \A i \in 1..(Len(segments) - 1) :
                  BoundaryAfter(i) <=> RunningWords(i) >= config.max_group_words

\* three segments: the first pair is split by its cohesion, and the second
\* pair stays together because the count restarted at that boundary, although
\* the words of all segments so far reach the limit
C21_Witness ==
    /\ Detected
    /\ Len(segments) = 3
    /\ ~Cohesive(1) /\ BoundaryAfter(1)
    /\ Cohesive(2) /\ ~BoundaryAfter(2)
    /\ segments[1].word_count + segments[2].word_count >= config.max_group_words

(***************************************************************************)
(* Group formation slice by slice (GroupingService._form_groups,           *)
(* SegmentGrouper.form_groups)                                             *)
(***************************************************************************)
\* the k-th boundary slice, as 1-based segment positions
SliceAt(k) ==
    Slice(boundaries[k],
          IF k + 1 <= Len(boundaries) THEN boundaries[k + 1] ELSE Len(segments))

\* groups[-1].total_words when the slice that starts after position p is
\* considered: the words of the formed group holding p, up to p
WordsUpTo(p) ==
    LET g == formed[CHOOSE a \in HoldersOf(formed, p) : TRUE]
        sofar == SelectSeq(g.segments, LAMBDA i : i <= p)
    IN  SumSeq([k \in 1..Len(sofar) |-> segments[sofar[k]].word_count])

StandsAlone(k) == \E a \in 1..Len(formed) : formed[a].segments[1] = SliceAt(k)[1]

SmallNotFinal(k) ==
    /\ Len(SliceAt(k)) < config.min_group_segments
    /\ k < Len(boundaries)

\* C22: a boundary slice with fewer than min_group_segments segments that is
\* not the final slice and has a group before it goes into that group exactly
\* when the resulting total_words is <= 1.2 * max_group_words; a slice
\* that does not go into the previous group starts a group of its own, and
\* the final slice always is a group of its own.
C22_SmallSliceMerge ==
    Detected =>
        \A k \in 1..Len(boundaries) :
            LET first == SliceAt(k)[1]
            IN  /\ (SmallNotFinal(k) /\ k > 1) =>
                      (SameGroup(formed, first - 1, first) <=>
                          (WordsUpTo(first - 1) + SliceWords(segments, SliceAt(k))) * 10
                              <= config.max_group_words * 12)
                /\ (k = 1 \/ ~SameGroup(formed, first - 1, first)) => StandsAlone(k)
                /\ ~SmallNotFinal(k) => StandsAlone(k)
                /\ k = Len(boundaries) => Last(formed).segments = SliceAt(k)

\* a one-segment slice that is not final joined the group before it, and the
\* final one-segment slice stands alone although the word test would have
\* let it in
C22_Witness ==
    /\ Detected
    /\ Len(boundaries) = 3
    /\ SmallNotFinal(2)
    /\ SameGroup(formed, 1, 2)
    /\ Len(SliceAt(3)) < config.min_group_segments
    /\ Last(formed).segments = SliceAt(3)
    /\ WordsUpTo(2) + SliceWords(segments, SliceAt(3)) <= config.max_group_words

(***************************************************************************)
(* The centroid merge pass as one sweep (GroupMerger.merge_groups,         *)
(* SegmentGrouper.post_merge_groups): group_video on videos of up to       *)
(* MaxSweepSegs segments, enough for three formed groups whose first two   *)
(* merge.                                                                  *)
(***************************************************************************)
MaxSweepSegs == 4
SweepChoice == [timing : {<<1, 1>>, <<4, 1>>}, tokens : WordChoices, vector : EmbChoices]

WInit ==
    /\ \E n \in 0..MaxSweepSegs : \E inp \in [1..n -> SweepChoice] : store = StoreOf(inp)
    /\ segments = <<>>
    /\ boundaries = <<>>
    /\ formed = <<>>
    /\ groups = <<>>
    /\ gpc = "start"
    /\ config = GroupingConfig
    /\ UploadIdle /\ AssemblerIdle /\ ExtractionIdle /\ PipelineIdle /\ FlowIdle /\ ConceptsIdle /\ StoresIdle /\ OverwriteIdle

SpecSweep == WInit /\ [][GNext]_vars

\* the pair (formed[a], formed[a+1]) ended up in one returned group
MergedPair(a) == SameGroup(groups, Last(formed[a].segments), formed[a + 1].segments[1])

\* formed[a] is `current` of an iteration of the sweep: it was not taken into
\* its left neighbor
IsCurrent(a) == a = 1 \/ ~MergedPair(a - 1)

\* the test of a pair, from the words and the centroids of the two groups
PairPasses(g1, g2) ==
    LET c1 == centroid_embedding(segments, g1)
        c2 == centroid_embedding(segments, g2)
    IN  /\ (total_words(segments, g1) + total_words(segments, g2)) * 100
              <= config.max_group_words * 125
        /\ c1[3] # 0 /\ c2[3] # 0
        /\ CosineAtLeast(<<c1[1], c1[2]>>, <<c2[1], c2[2]>>,
                         config.merge_centroid_threshold)

\* C23: every returned group is one formed group or the union of exactly two
\* adjacent formed groups; a pair whose left group was just merged into its
\* own left neighbor is not merged, and a considered pair is merged exactly
\* when its combined words are <= 1.25 * max_group_words and the cosine
\* of its centroids is >= merge_centroid_threshold.
C23_SingleSweep ==
    Grouped =>
        /\ \A j \in 1..Len(groups) :
              \E a \in 1..Len(formed) :
                  \/ groups[j].segments = formed[a].segments
                  \/ /\ a + 1 <= Len(formed)
                     /\ groups[j].segments = formed[a].segments \o formed[a + 1].segments
        /\ \A a \in 1..(Len(formed) - 1) :
              /\ ~IsCurrent(a) => ~MergedPair(a)
              /\ IsCurrent(a) => (MergedPair(a) <=> PairPasses(formed[a], formed[a + 1]))

\* three formed groups: the first two were merged, and the merged group and
\* the third would pass the test but stay apart
C23_Witness ==
    /\ Grouped
    /\ Len(formed) = 3
    /\ Len(groups) = 2
    /\ groups[1].segments = formed[1].segments \o formed[2].segments
    /\ groups[2].segments = formed[3].segments
    /\ PairPasses(groups[1], groups[2])

(***************************************************************************)
(* The sentence chunker seen from its result                               *)
(* (PunctuationWorker._sentences_to_segments).  Sentences carry the times  *)
(* of their words, so a segment's sentences are those inside its span.     *)
(***************************************************************************)
Chunked == apc \in {"done", "error"} /\ sentences # <<>>

\* sentence i lies in segment k
InSegment(i, k) ==
    /\ transcript[k].start_s <= sentences[i].start
    /\ sentences[i].end <= transcript[k].end_s

SentencesIn(k) == SelectSeq([i \in 1..Len(sentences) |-> i], LAMBDA i : InSegment(i, k))

\* a segment starts with sentence i
StartsSegment(i) == \E k \in 1..Len(transcript) : transcript[k].start_s = sentences[i].start

\* token_count of the buffer when sentence i (i >= 2) is looked at: the
\* sentences since the last flush
BufferTokens(i) ==
    LET from == CHOOSE b \in 1..(i - 1) :
                   /\ StartsSegment(b)
                   /\ \A c \in (b + 1)..(i - 1) : ~StartsSegment(c)
    IN  SumSeq([k \in 1..(i - from) |-> sentences[from + k - 1].token_count])

\* C24: the buffer is flushed in front of a sentence exactly when it is not
\* empty, buffer_tokens >= min_tokens and buffer_tokens + sentence_tokens >
\* max_tokens; the buffer left at the end of the input is always flushed; and
\* every segment's token count is the sum of its sentences' token counts.
C24_FlushRule ==
    Chunked =>
        /\ StartsSegment(1)
        /\ \A k \in 1..Len(transcript) : \E i \in 1..Len(sentences) : InSegment(i, k)
        /\ \A i \in 2..Len(sentences) :
              StartsSegment(i) <=>
                  /\ BufferTokens(i) >= ScaledMinTokens
                  /\ BufferTokens(i) + sentences[i].token_count > ScaledMaxTokens
        /\ Last(transcript).end_s = Last(sentences).end
        /\ \A k \in 1..Len(transcript) :
              transcript[k].tokens =
                  SumSeq([j \in 1..Len(SentencesIn(k)) |->
                             sentences[SentencesIn(k)[j]].token_count])

\* a sentence that would take the buffer past max_tokens was appended because
\* the buffer was below min_tokens, and a later sentence was flushed in front
\* of
C24_Witness ==
    /\ Chunked
    /\ \E i, j \in 2..Len(sentences) :
         /\ i < j
         /\ ~StartsSegment(i)
         /\ BufferTokens(i) < ScaledMinTokens
         /\ BufferTokens(i) + sentences[i].token_count > ScaledMaxTokens
         /\ StartsSegment(j)

\* C30: every segment but the last has token_count >= min_tokens, the
\* segments follow the input order, and every sentence lies in exactly one
\* segment, whose text is the text of its sentences in order.
C30_ChunksPartition ==
    Chunked =>
        /\ \A k \in 1..(Len(transcript) - 1) : transcript[k].tokens >= ScaledMinTokens
        /\ \A k \in 1..(Len(transcript) - 1) :
              transcript[k].end_s <= transcript[k + 1].start_s
        /\ \A i \in 1..Len(sentences) :
              Cardinality({k \in 1..Len(transcript) : InSegment(i, k)}) = 1
        /\ \A k \in 1..Len(transcript) :
              transcript[k].text =
                  Join([j \in 1..Len(SentencesIn(k)) |-> sentences[SentencesIn(k)[j]].text])

\* several sentences in more than one segment, the last segment below
\* min_tokens
C30_Witness ==
    /\ Chunked
    /\ Len(transcript) >= 2
    /\ Len(sentences) > Len(transcript)
    /\ Last(transcript).tokens < ScaledMinTokens
    /\ \A k \in 1..(Len(transcript) - 1) : transcript[k].tokens >= ScaledMinTokens

(***************************************************************************)
(* The order in which the pattern step tries the relationship types        *)
(* (IntraGroupDetector.detect_relationships: for rel_type in               *)
(* RelationshipType).  One group whose text holds a requires and a uses    *)
(* sentence for the same pair, concepts of low and of high importance, and *)
(* a min_confidence below and above the confidence of a pattern match.     *)
(***************************************************************************)
OrderConceptChoices ==
    ConceptChoices \cup { [name |-> "beta", importance |-> 200, confidence |-> 400] }

OrderTexts ==
    { <<"alpha", "uses", "beta", "alpha", "requires", "beta">>,
      <<"alpha", "requires", "beta", "beta", "uses", "alpha">>,
      <<"alpha", "uses", "beta">>,
      <<"alpha", "xfill", "beta">> }

OrderMinConfidence == {600, 900}

OrderInputs(video_id) ==
    { <<ExtractedConcepts(video_id, 0, c, t)>> :
        c \in UNION { [1..n -> OrderConceptChoices] : n \in 0..MaxConcepts },
        t \in OrderTexts }

OInit ==
    /\ detector_config \in [min_confidence : OrderMinConfidence, openai_client : BOOLEAN]
    /\ all_extracted_concepts \in OrderInputs(VideoId)
    /\ all_relationships = <<>>
    /\ cursor = 1
    /\ rpc = "start"
    /\ GroupingIdle /\ UploadIdle /\ AssemblerIdle /\ PipelineIdle /\ FlowIdle /\ ConceptsIdle /\ StoresIdle /\ OverwriteIdle

SpecTypeOrder == OInit /\ [][RNext]_vars

\* the groups the intra-group detector has returned from
DetectedGroups ==
    IF rpc \in {"intra", "done"} THEN 1..Min(cursor - 1, Len(video_concepts)) ELSE {}

PairsOf(g) ==
    {pr \in (1..Len(video_concepts[g].concepts)) \X (1..Len(video_concepts[g].concepts)) :
        pr[1] # pr[2]}

Source(g, pr) == video_concepts[g].concepts[pr[1]]
Target(g, pr) == video_concepts[g].concepts[pr[2]]

\* positions in IntraTypes of the types whose pattern matches the group text
MatchingTypes(g, pr) ==
    {t \in 1..Len(IntraTypes) :
        find_relationship_in_text(video_concepts[g].group_text, Source(g, pr),
                                  Target(g, pr), IntraTypes[t]).found}

FirstMatch(g, pr) == CHOOSE t \in MatchingTypes(g, pr) : \A u \in MatchingTypes(g, pr) : t <= u

TypesTried(g, pr) ==
    TypesTriedFrom(video_concepts[g].group_text, Source(g, pr), Target(g, pr),
                   detector_config, 1)

PatternConfidence(g, pr) ==
    find_relationship_in_text(video_concepts[g].group_text, Source(g, pr),
                              Target(g, pr), IntraTypes[FirstMatch(g, pr)]).confidence

\* a relationship of the pair with the given type is in the result
EmittedAs(g, pr, type) ==
    \E k \in 1..Len(all_relationships) :
        /\ all_relationships[k].source_concept_id = Source(g, pr).id
        /\ all_relationships[k].target_concept_id = Target(g, pr).id
        /\ all_relationships[k].type = type

\* C25 as stated: for any min_confidence, the first type in enumeration
\* order whose pattern matches wins and no later type is tried.
C25_AsStated ==
    \A g \in DetectedGroups : \A pr \in PairsOf(g) :
        MatchingTypes(g, pr) # {} =>
            /\ EmittedAs(g, pr, IntraTypes[FirstMatch(g, pr)])
            /\ TypesTried(g, pr) = SubSeq(IntraTypes, 1, FirstMatch(g, pr))

\* the concepts of the group carry pairwise different ids, so that a
\* relationship of the result names one pair of the group
DistinctIds(g) ==
    \A a, b \in 1..Len(video_concepts[g].concepts) :
        a # b => video_concepts[g].concepts[a].id # video_concepts[g].concepts[b].id

\* C25 (amended): in a group whose concepts carry pairwise different ids the
\* types are tried in enumeration order; when the first type whose pattern
\* matches has confidence >= min_confidence it wins and no later type is
\* tried; when its confidence is below min_confidence all seven types are
\* tried and the pattern step emits nothing for the pair, whose only
\* possible relationship is then the uses of the embedding fallback.
C25_FirstConfidentMatchWins ==
    \A g \in {h \in DetectedGroups : DistinctIds(h)} : \A pr \in PairsOf(g) :
        /\ \E n \in 1..Len(IntraTypes) : TypesTried(g, pr) = SubSeq(IntraTypes, 1, n)
        /\ MatchingTypes(g, pr) = {} => TypesTried(g, pr) = IntraTypes
        /\ MatchingTypes(g, pr) # {} =>
              IF PatternConfidence(g, pr) >= detector_config.min_confidence
              THEN /\ EmittedAs(g, pr, IntraTypes[FirstMatch(g, pr)])
                   /\ TypesTried(g, pr) = SubSeq(IntraTypes, 1, FirstMatch(g, pr))
                   /\ \A t \in MatchingTypes(g, pr) \ {FirstMatch(g, pr)} :
                         ~EmittedAs(g, pr, IntraTypes[t])
              ELSE /\ TypesTried(g, pr) = IntraTypes
                   /\ \A k \in 1..Len(all_relationships) :
                         (/\ all_relationships[k].source_concept_id = Source(g, pr).id
                          /\ all_relationships[k].target_concept_id = Target(g, pr).id)
                         => all_relationships[k].detection_method = "vector_similarity"

\* a pair whose text matches requires and uses: with enough confidence
\* requires was emitted and uses was not tried
C25_Witness ==
    \E g \in DetectedGroups : \E pr \in PairsOf(g) :
        /\ DistinctIds(g)
        /\ Cardinality(MatchingTypes(g, pr)) = 2
        /\ PatternConfidence(g, pr) >= detector_config.min_confidence
        /\ EmittedAs(g, pr, "requires")
        /\ ~EmittedAs(g, pr, "uses")
        /\ TypesTried(g, pr) = <<"defines", "causes", "requires">>

(***************************************************************************)
(* The three callers of the relationship extraction with their overwrite   *)
(* flag: YouTubeGraphPipeline._extract_and_upload_relationships,           *)
(* RelationshipService.extract_from_video, and scripts/extract_            *)
(* relationships.py (main with --upload, maybe_upload_relationships).      *)
(* Relationship ids are deterministic, so a run can detect ids the store   *)
(* already holds.  events records the calls in the order they are made.    *)
(***************************************************************************)
MaxEdgeIds == 2
EdgeIds == 1..MaxEdgeIds
Callers == {"pipeline", "service", "script"}

\* Neo4jGraph.delete_relationships_for_video: every edge of the video goes
delete_relationships_for_video(edges) == {}

\* upload_relationships / upsert_relationships: MERGE by id
upload_relationships(edges, relationships) == edges \cup relationships

CallInit ==
    /\ orchestration \in Callers
    /\ overwrite \in BOOLEAN
    /\ detector_raises \in BOOLEAN
    /\ graph_edges \in SUBSET EdgeIds
    /\ detected = {}
    /\ events = <<>>
    /\ opc = "start"
    /\ GroupingIdle /\ UploadIdle /\ AssemblerIdle /\ ExtractionIdle /\ PipelineIdle /\ FlowIdle /\ ConceptsIdle /\ StoresIdle

\* relationship_extractor.extract_from_video(...): returns relationships or
\* raises
ExtractCall(next) ==
    /\ events' = Append(events, "detect")
    /\ IF detector_raises
       THEN opc' = "raised" /\ UNCHANGED detected
       ELSE opc' = next /\ detected' \in SUBSET EdgeIds
    /\ UNCHANGED <<orchestration, overwrite, detector_raises, graph_edges>>
    /\ UNCHANGED <<gvars, ivars, avars, rvars, pvars, fvars, cvars, svars>>

\* "if overwrite: delete"
DeleteCall(next) ==
    /\ IF overwrite
       THEN /\ graph_edges' = delete_relationships_for_video(graph_edges)
            /\ events' = Append(events, "delete")
       ELSE UNCHANGED <<graph_edges, events>>
    /\ opc' = next
    /\ UNCHANGED <<orchestration, overwrite, detector_raises, detected>>
    /\ UNCHANGED <<gvars, ivars, avars, rvars, pvars, fvars, cvars, svars>>

UploadCall ==
    /\ graph_edges' = upload_relationships(graph_edges, detected)
    /\ events' = Append(events, "upsert")
    /\ opc' = "done"
    /\ UNCHANGED <<orchestration, overwrite, detector_raises, detected>>
    /\ UNCHANGED <<gvars, ivars, avars, rvars, pvars, fvars, cvars, svars>>

\* pipeline.py: extract, then delete, then upload
PipelineExtract == orchestration = "pipeline" /\ opc = "start" /\ ExtractCall("delete")
PipelineDelete  == orchestration = "pipeline" /\ opc = "delete" /\ DeleteCall("upload")
PipelineUpload  == orchestration = "pipeline" /\ opc = "upload" /\ UploadCall

\* relationship_service.py: delete, then extract, then upsert
ServiceDelete  == orchestration = "service" /\ opc = "start" /\ DeleteCall("extract")
ServiceExtract == orchestration = "service" /\ opc = "extract" /\ ExtractCall("upload")
ServiceUpsert  == orchestration = "service" /\ opc = "upload" /\ UploadCall

\* extract_relationships.py: extract_relationships_for_video, then
\* maybe_upload_relationships, which deletes only when the count is not zero
ScriptExtract == orchestration = "script" /\ opc = "start" /\ ExtractCall("upload")

maybe_upload_relationships ==
    /\ orchestration = "script"
    /\ opc = "upload"
    /\ IF overwrite /\ graph_edges # {}
       THEN /\ graph_edges' = upload_relationships(
                                 delete_relationships_for_video(graph_edges), detected)
            /\ events' = events \o <<"delete", "upsert">>
       ELSE /\ graph_edges' = upload_relationships(graph_edges, detected)
            /\ events' = Append(events, "upsert")
    /\ opc' = "done"
    /\ UNCHANGED <<orchestration, overwrite, detector_raises, detected>>
    /\ UNCHANGED <<gvars, ivars, avars, rvars, pvars, fvars, cvars, svars>>

CallNext ==
    \/ PipelineExtract \/ PipelineDelete \/ PipelineUpload
    \/ ServiceDelete \/ ServiceExtract \/ ServiceUpsert
    \/ ScriptExtract \/ maybe_upload_relationships

SpecOverwrite == CallInit /\ [][CallNext]_vars

\* C26: when overwrite is set, the delete of the video's relationships comes
\* first: every detector call and every upsert of the run has the delete
\* before it, whichever caller runs.
C26_AsStated ==
    overwrite =>
        \A k \in 1..Len(events) :
            events[k] \in {"detect", "upsert"} =>
                \E j \in 1..(k - 1) : events[j] = "delete"

(***************************************************************************)
(* Re-extraction of concepts: the second run of the pipeline calls         *)
(* process_groups(groups, skip_existing=False) on a video whose concepts   *)
(* of the first run are in the graph store.                                *)
(***************************************************************************)
\* ids of the concepts the latest process_groups call stored and returned
LatestConceptIds ==
    UNION { IdsOf(processed_concepts[k].concepts) : k \in 1..Len(processed_concepts) }

\* C27: after a re-extraction on a video that had concepts in the graph
\* store, the store holds for the video exactly the concepts of the latest
\* run.
C27_AsStated ==
    (RanTwice /\ first_run.concepts # {}) => neo4j_concepts = LatestConceptIds

(***************************************************************************)
(* The delay between the LLM calls of the concept stage                    *)
(* (ConceptService.process_groups; the loop of                             *)
(* YouTubeGraphPipeline._extract_and_upload_concepts sleeps at the same    *)
(* place, after a successful extraction only).                             *)
(***************************************************************************)
LlmCalls == {"pass1", "pass2"}

\* C28: when delay_seconds > 0, a sleep lies between any two consecutive LLM
\* calls of the concept stage, also after a call that failed and between the
\* last Pass 1 call and the Pass 2 call.
C28_AsStated ==
    delay_seconds > 0 =>
        \A k \in 1..(Len(llm_log) - 1) :
            ~(llm_log[k] \in LlmCalls /\ llm_log[k + 1] \in LlmCalls)


(***************************************************************************)
(* Self-relationships of the intra-group detector.  detect_relationships   *)
(* skips a pair only when the two list positions are equal (i == j);       *)
(* Concept._generate_uuid derives the id from video_id, group_id and the   *)
(* lower-cased name, so two entries of one group with the same name carry  *)
(* the same id.                                                            *)
(***************************************************************************)

\* C29: no relationship emitted by the intra-group detector has
\* source_concept_id equal to target_concept_id, also when two concepts of
\* the group carry the same name.
C29_AsStated ==
    \A k \in 1..Len(all_relationships) :
        all_relationships[k].source_group_id = all_relationships[k].target_group_id =>
            all_relationships[k].source_concept_id # all_relationships[k].target_concept_id

====
